---- MODULE Spec2Model ----
(***************************************************************************)
(* Karr-invariant extraction (muz_qe/dl_mk_karr_invariants.cpp).           *)
(*                                                                         *)
(* The model follows the karr_relation abstract value: a constraint form   *)
(* (m_ineqs) and a generator form (m_basis) with validity flags, the       *)
(* conversions dualizeI / dualizeH through the Hilbert-basis saturator,    *)
(* and the relational operators the plugin hands to the evaluator.  Next   *)
(* to it stand the factories of the plugin (SpecFactory), the operators    *)
(* on relations over three columns (SpecWide) and the driver               *)
(* mk_karr_invariants with its two passes and cancel() (SpecDriver);       *)
(* a relation next to its clone (SpecClone), update_rules with the model   *)
(* converter (SpecRules), filter_interpreted over two columns (SpecFilter) *)
(* and repeated unions into one target (SpecUnion).                        *)
(* Rationals are modelled by integers: every number the operators create   *)
(* from integer inputs is an integer.                                      *)
(***************************************************************************)
EXTENDS Integers, Sequences, FiniteSets, TLC

VARIABLES rel, last, conc, steps, drv, twin

vars == <<rel, last, conc, steps, drv, twin>>

(***************************************************************************)
(* Bounds of the model.                                                    *)
(***************************************************************************)
\* number of operations the evaluator applies in one run
MaxOps == 2
\* number of times the driver's operator() is entered
MaxRuns == 2

\* Signature widths of the relations the evaluator works on.
Widths == {1, 2}

\* Coordinates the saturator model searches for basis solutions.
HBRange == {-1, 0, 1}
\* Integer numerals occurring in facts, and in filter_equal values.
FactVals == {0, 1}
FilterVals == {0, 1}
\* Ground values of the concrete tuples tracked next to the abstract value.
Dom == {0, 1}

(***************************************************************************)
(* matrix: three parallel vectors A, b, eq (dl_mk_karr_invariants.h).      *)
(***************************************************************************)
EmptyMatrix == [A |-> <<>>, b |-> <<>>, eq |-> <<>>]

size(M) == Len(M.A)

\* A.push_back(row); b.push_back(b); eq.push_back(is_eq)
push_row(M, row, b, is_eq) ==
    [A |-> Append(M.A, row), b |-> Append(M.b, b), eq |-> Append(M.eq, is_eq)]

\* matrix::append
append(M, other) ==
    [A |-> M.A \o other.A, b |-> M.b \o other.b, eq |-> M.eq \o other.eq]

\* matrix::operator= : reset, then append(other)
assign(other) == append(EmptyMatrix, other)

\* vector<rational> row; row.resize(n): n zeros
zero_row(n) == [j \in 1..n |-> 0]

\* row with row[c] = v for the 0-based column c
unit_row(n, c, v) == [j \in 1..n |-> IF j = c + 1 THEN v ELSE 0]

RECURSIVE SumTo(_, _, _)
SumTo(a, x, k) == IF k = 0 THEN 0 ELSE a[k] * x[k] + SumTo(a, x, k - 1)

Dot(a, x) == SumTo(a, x, Len(a))

Abs(i) == IF i < 0 THEN -i ELSE i

(***************************************************************************)
(* The Hilbert-basis saturator (hilbert_basis, m_hb).  Its code is not     *)
(* part of the translated file; it is modelled from its contract: it is    *)
(* given rows A.x = rhs / A.x >= rhs over integer variables and answers    *)
(* l_false when there is no solution, l_true with the minimal solutions of *)
(* the system (initial) and of its homogeneous part (non-initial), or      *)
(* l_undef; it may also throw.  Solutions are searched in HBRange.         *)
(***************************************************************************)
l_true == "l_true"
l_false == "l_false"
l_undef == "l_undef"
throws == "throw"

\* m_hb.reset(); m_hb.add_eq / add_ge for every row: the system handed over
hb_system(A, rhs, eq) == [A |-> A, rhs |-> rhs, eq |-> eq]

hb_num_vars(sys) == IF Len(sys.A) = 0 THEN 0 ELSE Len(sys.A[1])

hb_vecs(n) == [1..n -> HBRange]

hb_row_holds(sys, i, x, rhs) ==
    IF sys.eq[i] THEN Dot(sys.A[i], x) = rhs ELSE Dot(sys.A[i], x) >= rhs

\* integer solutions of the system
hb_inhom(sys) ==
    {x \in hb_vecs(hb_num_vars(sys)) :
        \A i \in 1..Len(sys.A) : hb_row_holds(sys, i, x, sys.rhs[i])}

\* non-zero integer solutions of the homogeneous part
hb_hom(sys) ==
    {x \in hb_vecs(hb_num_vars(sys)) :
        /\ \E j \in 1..Len(x) : x[j] # 0
        /\ \A i \in 1..Len(sys.A) : hb_row_holds(sys, i, x, 0)}

\* e lies in the orthant of x and is no longer than x in any coordinate
hb_below(e, x) ==
    \A j \in 1..Len(x) : e[j] * x[j] >= 0 /\ Abs(e[j]) <= Abs(x[j])

hb_minus(x, e) == [j \in 1..Len(x) |-> x[j] - e[j]]

hb_min_hom(sys) ==
    LET H == hb_hom(sys)
    IN  {d \in H : ~\E e \in H : e # d /\ hb_below(e, d) /\ hb_minus(d, e) \in H}

hb_min_inhom(sys) ==
    LET H == hb_hom(sys)
        S == hb_inhom(sys)
    IN  {x \in S : ~\E e \in H : hb_below(e, x) /\ hb_minus(x, e) \in S}

RECURSIVE LexLess(_, _, _)
LexLess(x, y, j) ==
    IF j > Len(x) THEN FALSE
    ELSE IF x[j] # y[j] THEN x[j] < y[j]
    ELSE LexLess(x, y, j + 1)

RECURSIVE SortVecs(_)
SortVecs(S) ==
    IF S = {} THEN <<>>
    ELSE LET m == CHOOSE x \in S : \A y \in S : y = x \/ LexLess(x, y, 1)
         IN  <<m>> \o SortVecs(S \ {m})

\* get_basis_size / get_basis_solution(i, soln, is_initial) after l_true
hb_tag(sols, is_initial) ==
    [i \in 1..Len(sols) |-> [soln |-> sols[i], is_initial |-> is_initial]]

hb_basis(sys) ==
    IF hb_num_vars(sys) = 0 THEN <<>>
    ELSE hb_tag(SortVecs(hb_min_inhom(sys)), TRUE)
         \o hb_tag(SortVecs(hb_min_hom(sys)), FALSE)

\* what m_hb.saturate() can do on the system: its answer, or an exception
hb_saturate(sys) ==
    {l_undef, throws} \cup (IF hb_inhom(sys) # {} THEN {l_true} ELSE {l_false})

(***************************************************************************)
(* karr_relation_plugin::dualizeI / dualizeH.  o is what saturate() does.  *)
(***************************************************************************)
\* saturate() called without the try / catch around it
try_saturate_nocatch(o) == o

\* try { is_sat = m_hb.saturate(); } catch (...) { is_sat = l_undef; }
try_saturate(o) == IF o = throws THEN l_undef ELSE o

negate(b) == [i \in 1..Len(b) |-> -b[i]]

\* the loop without the first_initial guard: every initial solution is emitted
RECURSIVE basis_loop_all(_, _, _, _)
basis_loop_all(sols, i, first_initial, dst) ==
    IF i > Len(sols) THEN dst
    ELSE basis_loop_all(sols, i + 1, first_initial,
             push_row(dst, sols[i].soln, IF sols[i].is_initial THEN 1 ELSE 0, TRUE))

RECURSIVE basis_loop(_, _, _, _)
basis_loop(sols, i, first_initial, dst) ==
    IF i > Len(sols) THEN dst
    ELSE IF sols[i].is_initial /\ first_initial
         THEN basis_loop(sols, i + 1, FALSE, push_row(dst, sols[i].soln, 1, TRUE))
    ELSE IF ~sols[i].is_initial
         THEN basis_loop(sols, i + 1, first_initial, push_row(dst, sols[i].soln, 0, TRUE))
    ELSE basis_loop(sols, i + 1, first_initial, dst)

\* the system dualizeI hands to the saturator
systemI(src) == hb_system(src.A, negate(src.b), src.eq)

\* result: ret is the bool returned, dst the matrix written, exc whether an
\* exception left the function
dualizeI(src, o) ==
    LET is_sat == try_saturate(o)
    IN  IF is_sat = throws THEN [ret |-> TRUE, dst |-> EmptyMatrix, exc |-> TRUE]
        ELSE IF is_sat = l_false THEN [ret |-> FALSE, dst |-> EmptyMatrix, exc |-> FALSE]
        ELSE IF is_sat = l_undef THEN [ret |-> TRUE, dst |-> EmptyMatrix, exc |-> FALSE]
        ELSE [ret |-> TRUE,
              dst |-> basis_loop(hb_basis(systemI(src)), 1, TRUE, EmptyMatrix),
              exc |-> FALSE]

\* the system dualizeH hands to the saturator: each row with b appended
systemH(src) ==
    hb_system([i \in 1..size(src) |-> Append(src.A[i], src.b[i])],
              [i \in 1..size(src) |-> 0], src.eq)

RECURSIVE ineqs_loop(_, _, _)
ineqs_loop(sols, i, dst) ==
    IF i > Len(sols) THEN dst
    ELSE IF ~sols[i].is_initial
         THEN ineqs_loop(sols, i + 1,
                  push_row(dst, SubSeq(sols[i].soln, 1, Len(sols[i].soln) - 1),
                           sols[i].soln[Len(sols[i].soln)], TRUE))
    ELSE ineqs_loop(sols, i + 1, dst)

dualizeH(src, o) ==
    IF size(src) = 0 THEN [dst |-> EmptyMatrix, exc |-> FALSE]
    ELSE LET is_sat == try_saturate(o)
         IN  IF is_sat = throws THEN [dst |-> EmptyMatrix, exc |-> TRUE]
             ELSE IF is_sat # l_true THEN [dst |-> EmptyMatrix, exc |-> FALSE]
             ELSE [dst |-> ineqs_loop(hb_basis(systemH(src)), 1, EmptyMatrix),
                   exc |-> FALSE]

\* outcomes the saturator can produce inside dualizeI(., src) / dualizeH(., src)
OutcomesI(src) == hb_saturate(systemI(src))
OutcomesH(src) == hb_saturate(systemH(src))

(***************************************************************************)
(* karr_relation.                                                          *)
(***************************************************************************)
\* the constructor with m_ineqs_valid initialised to false
karr_relation_novalid(s, is_empty) ==
    [sig |-> s,
     m_empty |-> is_empty,
     m_ineqs |-> EmptyMatrix,
     m_ineqs_valid |-> FALSE,
     m_basis |-> EmptyMatrix,
     m_basis_valid |-> FALSE]

\* constructor: karr_relation(plugin, f, s, is_empty)
karr_relation(s, is_empty) ==
    [sig |-> s,
     m_empty |-> is_empty,
     m_ineqs |-> EmptyMatrix,
     m_ineqs_valid |-> ~is_empty,
     m_basis |-> EmptyMatrix,
     m_basis_valid |-> FALSE]

mk_empty(s) == karr_relation(s, TRUE)

mk_full(s) == karr_relation(s, FALSE)

empty(r) == r.m_empty

\* matrix::operator= taking over the rows of `other` without copying them
shares_rows_alias(other) == TRUE

\* matrix::operator=: reset(); append(other) -- whether the assigned matrix
\* shares its rows with `other` afterwards
shares_rows(other) == FALSE

\* karr_relation::copy
copy(r, other) ==
    [r EXCEPT !.m_ineqs = assign(other.m_ineqs),
              !.m_basis = assign(other.m_basis),
              !.m_basis_valid = other.m_basis_valid,
              !.m_ineqs_valid = other.m_ineqs_valid,
              !.m_empty = other.m_empty]

clone(r) == copy(karr_relation(r.sig, r.m_empty), r)

\* init_ineqs: the saturator is consulted only when the constraint form is
\* invalid and the basis has rows
calls_hbH(r) == ~r.m_ineqs_valid /\ size(r.m_basis) # 0

\* m_plugin.dualizeH(m_ineqs, m_basis); m_ineqs_valid = true -- d is what
\* dualizeH did
init_ineqs_set(r, d) ==
    IF d.exc THEN [r EXCEPT !.m_ineqs = d.dst]
    ELSE [r EXCEPT !.m_ineqs = d.dst, !.m_ineqs_valid = TRUE]

init_ineqs(r, o) ==
    IF ~r.m_ineqs_valid THEN init_ineqs_set(r, dualizeH(r.m_basis, o)) ELSE r

init_ineqs_exc(r, o) == ~r.m_ineqs_valid /\ dualizeH(r.m_basis, o).exc

\* init_basis taking every answer of dualizeI as success
init_basis_noempty(r, o) ==
    IF ~r.m_basis_valid
    THEN [r EXCEPT !.m_basis = dualizeI(r.m_ineqs, o).dst, !.m_basis_valid = TRUE]
    ELSE r

calls_hbI(r) == ~r.m_basis_valid

\* if (m_plugin.dualizeI(m_basis, m_ineqs)) m_basis_valid = true; else
\* m_empty = true -- d is what dualizeI did
init_basis_set(r, d) ==
    IF d.exc THEN [r EXCEPT !.m_basis = d.dst]
    ELSE IF d.ret THEN [r EXCEPT !.m_basis = d.dst, !.m_basis_valid = TRUE]
    ELSE [r EXCEPT !.m_basis = d.dst, !.m_empty = TRUE]

init_basis(r, o) ==
    IF ~r.m_basis_valid THEN init_basis_set(r, dualizeI(r.m_ineqs, o)) ELSE r

init_basis_exc(r, o) == ~r.m_basis_valid /\ dualizeI(r.m_ineqs, o).exc

\* SASSERT(m_basis_valid) in init_ineqs, SASSERT(m_ineqs_valid) in init_basis
init_ineqs_assert(r) == r.m_ineqs_valid \/ r.m_basis_valid
init_basis_assert(r) == r.m_basis_valid \/ r.m_ineqs_valid

get_ineqs(r, o) == init_ineqs(r, o)
get_basis(r, o) == init_basis(r, o)

\* what the saturator can do when r's constraint form / basis is requested
OutH(r) == IF calls_hbH(r) THEN OutcomesH(r.m_basis) ELSE {"none"}
OutI(r) == IF calls_hbI(r) THEN OutcomesI(r.m_ineqs) ELSE {"none"}

(***************************************************************************)
(* Relation elements and facts: a.is_numeral(f[i], n) && n.is_int().       *)
(***************************************************************************)
IntElem(v) == [num |-> TRUE, int |-> TRUE, val |-> v]
\* a numeral that is not an integer (its value is not used)
RatElem == [num |-> TRUE, int |-> FALSE, val |-> 0]
\* an element that is no numeral
SymElem == [num |-> FALSE, int |-> FALSE, val |-> 0]

is_int_numeral(e) == e.num /\ e.int

\* the loop pushing n where the code pushes -n
RECURSIVE add_fact_loop_pos(_, _, _)
add_fact_loop_pos(M, f, i) ==
    IF i > Len(f) THEN M
    ELSE IF is_int_numeral(f[i])
         THEN add_fact_loop_pos(push_row(M, unit_row(Len(f), i - 1, 1), f[i].val, TRUE),
                                f, i + 1)
    ELSE add_fact_loop_pos(M, f, i + 1)

RECURSIVE add_fact_loop(_, _, _)
add_fact_loop(M, f, i) ==
    IF i > Len(f) THEN M
    ELSE IF is_int_numeral(f[i])
         THEN add_fact_loop(push_row(M, unit_row(Len(f), i - 1, 1), -f[i].val, TRUE), f, i + 1)
    ELSE add_fact_loop(M, f, i + 1)

add_fact(r, f) ==
    [r EXCEPT !.m_empty = FALSE,
              !.m_ineqs_valid = TRUE,
              !.m_ineqs = add_fact_loop(r.m_ineqs, f, 1)]

\* SASSERT(m_empty); SASSERT(!m_basis_valid)
add_fact_assert(r) == r.m_empty /\ ~r.m_basis_valid

(***************************************************************************)
(* Symbolic expressions handed to filter_interpreted.  k is the kind of    *)
(* the node, int whether its sort is Int, i a variable index, n a numeral. *)
(***************************************************************************)
Node(k, int, i, n, args) == [k |-> k, int |-> int, i |-> i, n |-> n, args |-> args]

Var(i) == Node("var", TRUE, i, 0, <<>>)
Num(n) == Node("num", TRUE, 0, n, <<>>)
Add(e1, e2) == Node("add", TRUE, 0, 0, <<e1, e2>>)
Sub(e1, e2) == Node("sub", TRUE, 0, 0, <<e1, e2>>)
Mul(e1, e2) == Node("mul", TRUE, 0, 0, <<e1, e2>>)
Uminus(e1) == Node("uminus", TRUE, 0, 0, <<e1>>)
Eq(e1, e2) == Node("eq", FALSE, 0, 0, <<e1, e2>>)
Le(e1, e2) == Node("le", FALSE, 0, 0, <<e1, e2>>)
Ge(e1, e2) == Node("ge", FALSE, 0, 0, <<e1, e2>>)
Lt(e1, e2) == Node("lt", FALSE, 0, 0, <<e1, e2>>)
Gt(e1, e2) == Node("gt", FALSE, 0, 0, <<e1, e2>>)
Not(e1) == Node("not", FALSE, 0, 0, <<e1>>)
Or(e1, e2) == Node("or", FALSE, 0, 0, <<e1, e2>>)

is_var(e) == e.k = "var"
is_numeral(e) == e.k = "num"

\* the outcome of a parse: whether it succeeded, and row and b as it left them
Lin(ok, row, b) == [ok |-> ok, row |-> row, b |-> b]

RECURSIVE is_linear(_, _, _, _)
RECURSIVE is_linear_args(_, _, _, _, _)
is_linear(e, row, b, mul) ==
    IF ~e.int THEN Lin(FALSE, row, b)
    ELSE IF is_var(e)
         THEN Lin(TRUE, [row EXCEPT ![e.i + 1] = @ + mul], b)
    ELSE IF is_numeral(e) THEN Lin(TRUE, row, b + mul * e.n)
    ELSE IF e.k = "add" THEN is_linear_args(e.args, 1, row, b, mul)
    ELSE IF e.k = "sub"
         THEN LET l1 == is_linear(e.args[1], row, b, mul)
              IN  IF l1.ok THEN is_linear(e.args[2], l1.row, l1.b, -mul) ELSE l1
    ELSE IF e.k = "mul" /\ is_numeral(e.args[1])
         THEN is_linear(e.args[2], row, b, mul * e.args[1].n)
    ELSE IF e.k = "mul" /\ is_numeral(e.args[2])
         THEN is_linear(e.args[1], row, b, mul * e.args[2].n)
    ELSE IF e.k = "uminus" THEN is_linear(e.args[1], row, b, -mul)
    ELSE Lin(FALSE, row, b)

is_linear_args(args, i, row, b, mul) ==
    IF i > Len(args) THEN Lin(TRUE, row, b)
    ELSE LET l1 == is_linear(args[i], row, b, mul)
         IN  IF l1.ok THEN is_linear_args(args, i + 1, l1.row, l1.b, mul)
             ELSE Lin(FALSE, l1.row, l1.b)

\* is_linear(e1, row, b, m1) && is_linear(e2, row, b, m2)
is_linear2(e1, m1, e2, m2, row, b) ==
    LET l1 == is_linear(e1, row, b, m1)
    IN  IF l1.ok THEN is_linear(e2, l1.row, l1.b, m2) ELSE Lin(FALSE, l1.row, l1.b)

\* karr_relation::is_eq(e, v, n): e is (var = numeral) or (numeral = var)
is_eq(e) ==
    /\ e.k = "eq"
    /\ \/ is_var(e.args[1]) /\ is_numeral(e.args[2])
       \/ ~is_var(e.args[1]) /\ is_var(e.args[2]) /\ is_numeral(e.args[1])
is_eq_v(e) == IF is_var(e.args[1]) THEN e.args[1] ELSE e.args[2]
is_eq_n(e) == IF is_var(e.args[1]) THEN e.args[2].n ELSE e.args[1].n

\* The branches of the loop body of filter_interpreted, in the order of the
\* code; each is given, in l, the row and b the failed branches left behind.
\* the disjunction branch without the test v == w
atom_or_anyvar(M, e, l) ==
    IF e.k = "or" /\ is_eq(e.args[1]) /\ is_eq(e.args[2])
    THEN LET v == is_eq_v(e.args[1])
             m1 == is_eq_n(e.args[1])
             m2 == is_eq_n(e.args[2])
             n1 == IF m1 > m2 THEN m2 ELSE m1
             n2 == IF m1 > m2 THEN m1 ELSE m2
         IN  push_row(push_row(M, [l.row EXCEPT ![v.i + 1] = 1], -n1, FALSE),
                      [l.row EXCEPT ![v.i + 1] = -1], n2, FALSE)
    ELSE M

\* else if (m.is_or(e, e1, e2) && is_eq(e1, v, n1) && is_eq(e2, w, n2) && v == w)
atom_or(M, e, l) ==
    IF /\ e.k = "or" /\ is_eq(e.args[1]) /\ is_eq(e.args[2])
       /\ is_eq_v(e.args[1]) = is_eq_v(e.args[2])
    THEN LET v == is_eq_v(e.args[1])
             m1 == is_eq_n(e.args[1])
             m2 == is_eq_n(e.args[2])
             n1 == IF m1 > m2 THEN m2 ELSE m1
             n2 == IF m1 > m2 THEN m1 ELSE m2
         IN  push_row(push_row(M, [l.row EXCEPT ![v.i + 1] = 1], -n1, FALSE),
                      [l.row EXCEPT ![v.i + 1] = -1], n2, FALSE)
    ELSE M

\* else if (m.is_not(e, en) && (a.is_le(en, e2, e1) || a.is_ge(en, e1, e2)) && ...)
atom_not_le(M, e, l) ==
    LET l5 == IF e.k = "not" /\ e.args[1].k = "le"
              THEN is_linear2(e.args[1].args[2], -1, e.args[1].args[1], 1, l.row, l.b)
              ELSE IF e.k = "not" /\ e.args[1].k = "ge"
              THEN is_linear2(e.args[1].args[1], -1, e.args[1].args[2], 1, l.row, l.b)
              ELSE Lin(FALSE, l.row, l.b)
    IN  IF l5.ok THEN push_row(M, l5.row, l5.b - 1, FALSE) ELSE atom_or(M, e, l5)

\* else if (m.is_not(e, en) && (a.is_lt(en, e2, e1) || a.is_gt(en, e1, e2)) && ...)
atom_not_lt(M, e, l) ==
    LET l4 == IF e.k = "not" /\ e.args[1].k = "lt"
              THEN is_linear2(e.args[1].args[2], -1, e.args[1].args[1], 1, l.row, l.b)
              ELSE IF e.k = "not" /\ e.args[1].k = "gt"
              THEN is_linear2(e.args[1].args[1], -1, e.args[1].args[2], 1, l.row, l.b)
              ELSE Lin(FALSE, l.row, l.b)
    IN  IF l4.ok THEN push_row(M, l4.row, l4.b, FALSE) ELSE atom_not_le(M, e, l4)

\* the strict branch pushing b as it is
atom_lt_notight(M, e, l) ==
    LET l3 == IF e.k = "lt" THEN is_linear2(e.args[1], -1, e.args[2], 1, l.row, l.b)
              ELSE IF e.k = "gt" THEN is_linear2(e.args[2], -1, e.args[1], 1, l.row, l.b)
              ELSE Lin(FALSE, l.row, l.b)
    IN  IF l3.ok THEN push_row(M, l3.row, l3.b, FALSE) ELSE atom_not_lt(M, e, l3)

\* else if ((a.is_lt(e, e1, e2) || a.is_gt(e, e2, e1)) && ...)
atom_lt(M, e, l) ==
    LET l3 == IF e.k = "lt" THEN is_linear2(e.args[1], -1, e.args[2], 1, l.row, l.b)
              ELSE IF e.k = "gt" THEN is_linear2(e.args[2], -1, e.args[1], 1, l.row, l.b)
              ELSE Lin(FALSE, l.row, l.b)
    IN  IF l3.ok THEN push_row(M, l3.row, l3.b - 1, FALSE) ELSE atom_not_lt(M, e, l3)

\* else if ((a.is_le(e, e1, e2) || a.is_ge(e, e2, e1)) && ...)
atom_le(M, e, l) ==
    LET l2 == IF e.k = "le" THEN is_linear2(e.args[1], -1, e.args[2], 1, l.row, l.b)
              ELSE IF e.k = "ge" THEN is_linear2(e.args[2], -1, e.args[1], 1, l.row, l.b)
              ELSE Lin(FALSE, l.row, l.b)
    IN  IF l2.ok THEN push_row(M, l2.row, l2.b, FALSE) ELSE atom_lt(M, e, l2)

\* the rows one conjunct e appends to M, starting with
\* if (m.is_eq(e, e1, e2) && is_linear(e1, row, b, one) && is_linear(e2, row, b, mone))
filter_atom(M, e, num_columns) ==
    LET l1 == IF e.k = "eq"
              THEN is_linear2(e.args[1], 1, e.args[2], -1, zero_row(num_columns), 0)
              ELSE Lin(FALSE, zero_row(num_columns), 0)
    IN  IF l1.ok THEN push_row(M, l1.row, l1.b, TRUE) ELSE atom_le(M, e, l1)

RECURSIVE filter_conjs(_, _, _, _)
filter_conjs(M, conjs, i, num_columns) ==
    IF i > Len(conjs) THEN M
    ELSE filter_conjs(filter_atom(M, conjs[i], num_columns), conjs, i + 1, num_columns)

\* datalog::flatten_and(cond, conjs): cond is given as its list of conjuncts
filter_interpreted(r, conjs, o) ==
    LET r1 == get_ineqs(r, o)
    IN  [r1 EXCEPT !.m_ineqs = filter_conjs(r1.m_ineqs, conjs, 1, r.sig)]

(***************************************************************************)
(* mk_join, mk_project, mk_rename, mk_union and the two simple filters.    *)
(* Column numbers are 0-based as in the code.                              *)
(***************************************************************************)
\* row.append(M1.A[i]); row.resize(sig_size)
pad_row(row, sig_size) ==
    [j \in 1..sig_size |-> IF j <= Len(row) THEN row[j] ELSE 0]

\* the row of M2 copied without moving it past the columns of r1
shift_row_noshift(row, sig1_size, sig_size) ==
    [j \in 1..sig_size |-> IF j <= Len(row) THEN row[j] ELSE 0]

\* row.resize(sig_size); row[sig1_size + j] = M2.A[i][j]
shift_row(row, sig1_size, sig_size) ==
    [j \in 1..sig_size |->
        IF j > sig1_size /\ j - sig1_size <= Len(row) THEN row[j - sig1_size] ELSE 0]

\* row[cols1[i]] = 1; row[sig1_size + cols2[i]] = -1 (in this order)
pair_row(c1, c2, sig1_size, sig_size) ==
    [unit_row(sig_size, c1, 1) EXCEPT ![sig1_size + c2 + 1] = -1]

join_ineqs(M1, M2, cols1, cols2, sig1_size, sig_size) ==
    [A  |-> [i \in 1..size(M1) |-> pad_row(M1.A[i], sig_size)]
            \o [i \in 1..size(M2) |-> shift_row(M2.A[i], sig1_size, sig_size)]
            \o [i \in 1..Len(cols1) |-> pair_row(cols1[i], cols2[i], sig1_size, sig_size)],
     b  |-> M1.b \o M2.b \o [i \in 1..Len(cols1) |-> 0],
     eq |-> M1.eq \o M2.eq \o [i \in 1..Len(cols1) |-> TRUE]]

\* mk_join testing only r1.empty()
mk_join_r1only(this, r1, r2, cols1, cols2) ==
    IF empty(r1) THEN [this EXCEPT !.m_empty = TRUE]
    ELSE [this EXCEPT !.m_ineqs = join_ineqs(r1.m_ineqs, r2.m_ineqs, cols1, cols2,
                                             r1.sig, this.sig),
                      !.m_ineqs_valid = TRUE,
                      !.m_basis_valid = FALSE,
                      !.m_empty = FALSE]

\* this->mk_join(r1, r2, ...): `this` was made by mk_full(0, result signature).
\* r1 and r2 are the operands after their constraint forms were requested.
mk_join(this, r1, r2, cols1, cols2) ==
    IF empty(r1) \/ empty(r2) THEN [this EXCEPT !.m_empty = TRUE]
    ELSE [this EXCEPT !.m_ineqs = join_ineqs(r1.m_ineqs, r2.m_ineqs, cols1, cols2,
                                             r1.sig, this.sig),
                      !.m_ineqs_valid = TRUE,
                      !.m_basis_valid = FALSE,
                      !.m_empty = FALSE]

\* the inner loop dropping the column after each removed one as well
RECURSIVE project_row_skip(_, _, _, _, _)
project_row_skip(rowA, j, k, cols, row) ==
    IF j >= Len(rowA) THEN row
    ELSE IF k < Len(cols) /\ j = cols[k + 1]
         THEN project_row_skip(rowA, j + 2, k + 1, cols, row)
    ELSE project_row_skip(rowA, j + 1, k, cols, Append(row, rowA[j + 1]))

\* the inner loop of mk_project over one row: k walks the removed columns
RECURSIVE project_row(_, _, _, _, _)
project_row(rowA, j, k, cols, row) ==
    IF j >= Len(rowA) THEN row
    ELSE IF k < Len(cols) /\ j = cols[k + 1]
         THEN project_row(rowA, j + 1, k + 1, cols, row)
    ELSE project_row(rowA, j + 1, k, cols, Append(row, rowA[j + 1]))

project_basis(M, cols) ==
    [A  |-> [i \in 1..size(M) |-> project_row(M.A[i], 0, 0, cols, <<>>)],
     b  |-> M.b,
     eq |-> [i \in 1..size(M) |-> TRUE]]

\* this->mk_project(r, cnt, cols): r0 is r before, o what the saturator does
\* when r.get_basis() consults it
mk_project(this, r0, cols, o) ==
    IF r0.m_empty THEN [this EXCEPT !.m_empty = TRUE]
    ELSE [this EXCEPT !.m_basis = project_basis(get_basis(r0, o).m_basis, cols),
                      !.m_basis_valid = TRUE,
                      !.m_ineqs_valid = FALSE,
                      !.m_empty = FALSE]

\* r after mk_project(r, ...) looked at it
mk_project_src(r0, o) == IF r0.m_empty THEN r0 ELSE get_basis(r0, o)

\* mk_rename(matrix&, col_cnt, cols) on one row: the assignments in order
RECURSIVE rename_shift(_, _, _)
rename_shift(row, cols, i) ==
    IF i + 1 >= Len(cols) THEN row
    ELSE rename_shift([row EXCEPT ![cols[i + 1] + 1] = row[cols[i + 2] + 1]], cols, i + 1)

\* the assignments without tmp: the last column of the cycle is read after
\* the first was overwritten
rename_row_notmp(row, cols) ==
    [rename_shift(row, cols, 0) EXCEPT
        ![cols[Len(cols)] + 1] = rename_shift(row, cols, 0)[cols[1] + 1]]

\* the cycle applied in the other direction
rename_row_back(row, cols) ==
    [j \in 1..Len(row) |->
        IF \E t \in 1..Len(cols) : cols[t] + 1 = j
        THEN LET t == CHOOSE t \in 1..Len(cols) : cols[t] + 1 = j
             IN  row[cols[IF t > 1 THEN t - 1 ELSE Len(cols)] + 1]
        ELSE row[j]]

rename_row(row, cols) ==
    LET tmp == row[cols[1] + 1]
    IN  [rename_shift(row, cols, 0) EXCEPT ![cols[Len(cols)] + 1] = tmp]

rename_matrix(M, cols) ==
    [M EXCEPT !.A = [j \in 1..size(M) |-> rename_row(M.A[j], cols)]]

\* this->mk_rename(r, col_cnt, cols)
mk_rename(this, r, cols) ==
    IF empty(r) THEN [this EXCEPT !.m_empty = TRUE]
    ELSE [this EXCEPT
            !.m_ineqs_valid = r.m_ineqs_valid,
            !.m_basis_valid = r.m_basis_valid,
            !.m_ineqs = IF r.m_ineqs_valid
                        THEN rename_matrix(append(EmptyMatrix, r.m_ineqs), cols)
                        ELSE EmptyMatrix,
            !.m_basis = IF r.m_basis_valid
                        THEN rename_matrix(append(EmptyMatrix, r.m_basis), cols)
                        ELSE EmptyMatrix]

same_row(r1, r2) == \A i \in 1..Len(r1) : r1[i] = r2[i]

\* the search for a duplicate that never finds one
union_found_never(M, i, N, N_size) == FALSE

\* the row N.A[j], j < N_size, equal to row i of M
union_found(M, i, N, N_size) ==
    \E j \in 1..N_size :
        same_row(M.A[i], N.A[j]) /\ M.b[i] = N.b[j] /\ M.eq[i] = N.eq[j]

RECURSIVE union_loop(_, _, _, _)
union_loop(M, i, N, N_size) ==
    IF i > size(M) THEN N
    ELSE IF union_found(M, i, N, N_size) THEN union_loop(M, i + 1, N, N_size)
    ELSE union_loop(M, i + 1, push_row(N, M.A[i], M.b[i], M.eq[i]), N_size)

\* a delta argument: present says whether the caller passed one
NoDelta == [present |-> FALSE, r |-> mk_empty(0)]
Delta(d) == [present |-> TRUE, r |-> d]

\* the three relations as mk_union leaves them; copied says whether
\* delta->copy(*this) is reached
union_result(self1, src1, delta, copied) ==
    [self |-> self1, src |-> src1,
     delta |-> IF copied /\ delta.present THEN Delta(copy(delta.r, self1)) ELSE delta,
     copied |-> copied /\ delta.present]

\* if (empty()) { m_basis = M; m_basis_valid = true; m_empty = false; ... }
union_adopt(self, src1, delta) ==
    union_result([self EXCEPT !.m_basis = assign(src1.m_basis),
                              !.m_basis_valid = TRUE,
                              !.m_empty = FALSE,
                              !.m_ineqs_valid = FALSE],
                 src1, delta, TRUE)

\* m_ineqs_valid = false; if (N_size != N.size()) ... -- N is self1's basis
\* after the loop
union_append_set(self1, N, src1, delta) ==
    union_result([self1 EXCEPT !.m_basis = N, !.m_ineqs_valid = FALSE],
                 src1, delta, size(self1.m_basis) # size(N))

\* self1 is self after get_basis()
union_append(self1, src1, delta) ==
    union_append_set(self1,
                     union_loop(src1.m_basis, 1, self1.m_basis, size(self1.m_basis)),
                     src1, delta)

\* src1 is src after src.get_basis()
union_src(self, src1, delta, oself) ==
    IF empty(self) THEN union_adopt(self, src1, delta)
    ELSE union_append(get_basis(self, oself), src1, delta)

\* self.mk_union(src, delta): osrc / oself is what the saturator does when
\* src.get_basis() / this->get_basis() consults it.  The result holds the
\* three relations as the call leaves them.
mk_union(self, src, delta, osrc, oself) ==
    IF empty(src)
    THEN [self |-> self, src |-> src,
          delta |-> IF delta.present THEN Delta([delta.r EXCEPT !.m_empty = TRUE])
                    ELSE delta,
          copied |-> FALSE]
    ELSE union_src(self, get_basis(src, osrc), delta, oself)

\* whether mk_union reaches src.get_basis() / this->get_basis()
union_calls_src(self, src) == ~empty(src)
union_calls_self(self, src, osrc) == ~empty(src) /\ ~empty(self)

RECURSIVE identical_loop(_, _, _)
identical_loop(r, cols, i) ==
    IF i > Len(cols) - 1 THEN r
    ELSE identical_loop(
             [r EXCEPT !.m_ineqs = push_row(@, [unit_row(r.sig, cols[1], 1)
                                                   EXCEPT ![cols[i + 1] + 1] = -1], 0, TRUE),
                       !.m_basis_valid = FALSE],
             cols, i + 1)

\* filter_identical_fn::operator()
filter_identical(r, cols, o) == identical_loop(get_ineqs(r, o), cols, 1)

\* filter_equal_fn: m_valid = arith.is_numeral(value, m_value) && m_value.is_int()
filter_equal_valid(value) == is_int_numeral(value)

\* filter_equal_fn::operator()
filter_equal(r, col, value, o) ==
    IF filter_equal_valid(value)
    THEN LET r1 == get_ineqs(r, o)
         IN  [r1 EXCEPT !.m_ineqs = push_row(@, unit_row(r.sig, col, 1), -1, TRUE),
                        !.m_basis_valid = FALSE]
    ELSE r

(***************************************************************************)
(* to_formula: the formula is false, or the conjunction of the rows of the *)
(* constraint form (bool_rewriter makes the empty conjunction true).       *)
(***************************************************************************)
Formula(kind, M) == [kind |-> kind, M |-> M]
mk_false == Formula("false", EmptyMatrix)
mk_true == Formula("true", EmptyMatrix)
mk_and(M) == IF size(M) = 0 THEN mk_true ELSE Formula("and", M)

to_formula(r, o) == IF empty(r) THEN mk_false ELSE mk_and(get_ineqs(r, o).m_ineqs)

\* r after to_formula looked at it
to_formula_src(r, o) == IF empty(r) THEN r ELSE get_ineqs(r, o)

(***************************************************************************)
(* The ground tuples the evaluated rules derive, kept next to each         *)
(* relation (conc), and the point sets the two forms denote.               *)
(***************************************************************************)
Tuples(n) == [1..n -> Dom]

row_holds(M, i, x) ==
    IF M.eq[i] THEN Dot(M.A[i], x) + M.b[i] = 0 ELSE Dot(M.A[i], x) + M.b[i] >= 0

\* points of S that satisfy every row of the constraint form M
ineqs_points(M, S) == {x \in S : \A i \in 1..size(M) : row_holds(M, i, x)}

\* points of S in the affine hull of the basis M: every equality a.x + c = 0
\* that holds of all generators holds of them (no generator: no information)
basis_points(M, n, S) ==
    IF size(M) = 0 THEN S
    ELSE LET K == {y \in hb_vecs(n + 1) :
                      \A i \in 1..size(M) :
                          Dot(SubSeq(y, 1, n), M.A[i]) + y[n + 1] * M.b[i] = 0}
         IN  {x \in S : \A y \in K : Dot(SubSeq(y, 1, n), x) + y[n + 1] = 0}

\* the points of S the relation stands for
gamma(r, S) ==
    IF r.m_empty THEN {}
    ELSE IF r.m_ineqs_valid THEN ineqs_points(r.m_ineqs, S)
    ELSE basis_points(r.m_basis, r.sig, S)

RECURSIVE eval(_, _)
eval(e, t) ==
    CASE e.k = "var" -> t[e.i + 1]
      [] e.k = "num" -> e.n
      [] e.k = "add" -> eval(e.args[1], t) + eval(e.args[2], t)
      [] e.k = "sub" -> eval(e.args[1], t) - eval(e.args[2], t)
      [] e.k = "mul" -> eval(e.args[1], t) * eval(e.args[2], t)
      [] e.k = "uminus" -> 0 - eval(e.args[1], t)

RECURSIVE holds(_, _)
holds(e, t) ==
    CASE e.k = "eq" -> eval(e.args[1], t) = eval(e.args[2], t)
      [] e.k = "le" -> eval(e.args[1], t) <= eval(e.args[2], t)
      [] e.k = "ge" -> eval(e.args[1], t) >= eval(e.args[2], t)
      [] e.k = "lt" -> eval(e.args[1], t) < eval(e.args[2], t)
      [] e.k = "gt" -> eval(e.args[1], t) > eval(e.args[2], t)
      [] e.k = "not" -> ~holds(e.args[1], t)
      [] e.k = "or" -> holds(e.args[1], t) \/ holds(e.args[2], t)

holds_all(conjs, t) == \A i \in 1..Len(conjs) : holds(conjs[i], t)

\* the tuple a fact of integer numerals stands for
fact_tuple(f) == [i \in 1..Len(f) |-> f[i].val]
fact_is_ground(f) == \A i \in 1..Len(f) : is_int_numeral(f[i]) /\ f[i].val \in Dom

conc_join(T1, T2, cols1, cols2) ==
    {t1 \o t2 : <<t1, t2>> \in
        {p \in T1 \X T2 :
            \A i \in 1..Len(cols1) : p[1][cols1[i] + 1] = p[2][cols2[i] + 1]}}

conc_project(T, cols) == {project_row(t, 0, 0, cols, <<>>) : t \in T}

conc_rename(T, cols) == {rename_row(t, cols) : t \in T}

(***************************************************************************)
(* Inputs of the operations.                                               *)
(***************************************************************************)
IntElems == {IntElem(v) : v \in FactVals}
\* facts whose components are integer numerals or a non-integer numeral
Facts(n) == [1..n -> IntElems \cup {RatElem}]
FilterElems == {IntElem(v) : v \in FilterVals} \cup {RatElem, SymElem}

\* conditions of filter_interpreted, as lists of conjuncts over column 0
CondNames == {"contra", "nonlin", "or01"}
Cond(name) ==
    CASE name = "contra" -> <<Eq(Var(0), Num(0)), Eq(Var(0), Num(1))>>
      [] name = "nonlin" -> <<Eq(Var(0), Mul(Var(0), Var(0)))>>
      [] name = "or01" -> <<Or(Eq(Var(0), Num(0)), Eq(Var(0), Num(1)))>>

\* integer-linear terms over columns 0 and 1
LinTerms ==
    {Var(0), Var(1), Num(1), Add(Var(0), Num(1)), Sub(Var(1), Var(0)),
     Mul(Num(2), Var(0)), Uminus(Var(1))}

\* a real-sorted variable, and terms whose linear parse fails, the last two
\* after it changed row or b
RealVar == Node("var", FALSE, 0, 0, <<>>)
NonLinTerms ==
    {Mul(Var(0), Var(1)), RealVar, Add(Var(0), Mul(Var(1), Var(1))),
     Sub(Num(1), Mul(Var(0), Var(0)))}

\* the atoms of the shapes the cascade of filter_interpreted tests for
OrderAtoms(T1, T2) ==
    UNION {{Eq(e1, e2), Le(e1, e2), Ge(e1, e2), Lt(e1, e2), Gt(e1, e2),
            Not(Le(e1, e2)), Not(Ge(e1, e2)), Not(Lt(e1, e2)), Not(Gt(e1, e2))}
              : <<e1, e2>> \in T1 \X T2}
OrNums == {0, 1, 2}
OrAtoms ==
    UNION {{Or(Eq(v, Num(n1)), Eq(v, Num(n2))), Or(Eq(Num(n1), v), Eq(v, Num(n2)))}
              : <<v, n1, n2>> \in {Var(0), Var(1)} \X OrNums \X OrNums}
ShapedAtoms == OrderAtoms(LinTerms, LinTerms) \cup OrAtoms

\* atoms no branch of the cascade accepts
OtherAtoms ==
    OrderAtoms(NonLinTerms, {Var(1)}) \cup OrderAtoms({Add(Var(0), Num(1))}, NonLinTerms)
       \cup {Or(Eq(Var(0), Num(0)), Eq(Var(1), Num(1))),
             Or(Eq(Var(0), Num(0)), Le(Var(0), Num(1))),
             Not(Eq(Var(0), Num(0))), Not(Or(Eq(Var(0), Num(0)), Eq(Var(0), Num(1))))}

\* the conditions filter_interpreted is called with: one atom, or one of a
\* few accepted atoms next to an atom that is not accepted
MixAtoms == {Eq(Var(0), Var(1)), Lt(Var(0), Num(1)), Or(Eq(Var(1), Num(0)), Eq(Var(1), Num(2)))}
FilterConds ==
    {<<e>> : e \in ShapedAtoms \cup OtherAtoms}
       \cup UNION {{<<u, e>>, <<e, u>>, <<u, e, u>>} : <<u, e>> \in OtherAtoms \X MixAtoms}
       \cup {<<u1, u2>> : <<u1, u2>> \in OtherAtoms \X {Not(Eq(Var(0), Num(0))), Eq(Var(1), RealVar)}}

\* column lists: join pairs, removed columns, cycles, identical columns
JoinPairs == {<<>>, <<0>>}
RemovedCols(n) ==
    {c \in {<<0>>, <<1>>} : c[1] < n /\ n >= 2}
       \cup {c \in {<<2>>, <<0, 1>>, <<0, 2>>, <<1, 2>>} : n >= 3}
Cycles(n) ==
    {c \in {<<0, 1>>, <<1, 0>>} : n >= 2}
       \cup {c \in {<<0, 1, 2>>, <<2, 1, 0>>, <<0, 2>>, <<2, 0>>, <<1, 2, 0>>} : n >= 3}
IdentCols(n) ==
    {<<0>>} \cup {c \in {<<0, 1>>, <<1, 0>>} : n >= 2}
            \cup {c \in {<<1, 2>>, <<0, 1, 2>>} : n >= 3}

const_fact(n, v) == [i \in 1..n |-> IntElem(v)]

\* The other relation of a binary operation (the source of a union, the
\* second operand of a join), each with the ground tuples it stands for:
\* an empty relation, two facts, a relation filtered by x0 = 0 and x0 = 1,
\* and a relation that took its basis from a union.
Operand(name, n) ==
    CASE name = "empty" -> [r |-> mk_empty(n), c |-> {}]
      [] name = "fact0" -> [r |-> add_fact(mk_empty(n), const_fact(n, 0)),
                            c |-> {fact_tuple(const_fact(n, 0))}]
      [] name = "fact1" -> [r |-> add_fact(mk_empty(n), const_fact(n, 1)),
                            c |-> {fact_tuple(const_fact(n, 1))}]
      [] name = "contra" -> [r |-> filter_interpreted(mk_full(n), Cond("contra"), "none"),
                             c |-> {}]
      [] name = "adopted" ->
            [r |-> mk_union(mk_empty(n), add_fact(mk_empty(n), const_fact(n, 1)),
                            NoDelta, l_true, "none").self,
             c |-> {fact_tuple(const_fact(n, 1))}]
OperandNames == {"empty", "fact0", "fact1", "contra", "adopted"}
JoinOperands == {"empty", "fact1", "adopted"}

(***************************************************************************)
(* The factories of the plugin.  A relation argument is given by its kind; *)
(* the result says whether a closure is returned (TRUE) or 0 (FALSE).      *)
(***************************************************************************)
Kinds == {"karr_relation", "other"}

\* relation_plugin::check_kind: the relation was made by this plugin
check_kind(t) == t = "karr_relation"

mk_join_fn(t1, t2) == IF ~check_kind(t1) \/ ~check_kind(t2) THEN FALSE ELSE TRUE

mk_project_fn(r) == TRUE

mk_rename_fn(r) == IF ~check_kind(r) THEN FALSE ELSE TRUE

\* delta is "none" when no delta is passed
mk_union_fn(tgt, src, delta) ==
    IF ~check_kind(tgt) \/ ~check_kind(src) \/ (delta # "none" /\ ~check_kind(delta))
    THEN FALSE ELSE TRUE

mk_filter_identical_fn(t) == IF ~check_kind(t) THEN FALSE ELSE TRUE

mk_filter_equal_fn(r) == IF check_kind(r) THEN TRUE ELSE FALSE

mk_filter_interpreted_fn(t) == IF check_kind(t) THEN TRUE ELSE FALSE

Factories == {"join", "project", "rename", "union", "filter_identical",
              "filter_equal", "filter_interpreted"}

\* the kinds of the relation arguments a factory can be called with
FactoryArgs(fn) ==
    CASE fn = "join" -> [1..2 -> Kinds]
      [] fn = "union" -> [1..2 -> Kinds] \cup [1..3 -> Kinds]
      [] OTHER -> [1..1 -> Kinds]

mk_fn(fn, k) ==
    CASE fn = "join" -> mk_join_fn(k[1], k[2])
      [] fn = "project" -> mk_project_fn(k[1])
      [] fn = "rename" -> mk_rename_fn(k[1])
      [] fn = "union" -> mk_union_fn(k[1], k[2], IF Len(k) = 3 THEN k[3] ELSE "none")
      [] fn = "filter_identical" -> mk_filter_identical_fn(k[1])
      [] fn = "filter_equal" -> mk_filter_equal_fn(k[1])
      [] fn = "filter_interpreted" -> mk_filter_interpreted_fn(k[1])

(***************************************************************************)
(* mk_karr_invariants, the driver.  The inner engine is not part of this   *)
(* file: a pass hands back, for each predicate, no relation or one of the  *)
(* relations below, and to_formula is applied to it.                       *)
(***************************************************************************)
Preds == <<"p", "q">>

\* an entry of m_fun2inv is the chain f1, f2, ... standing for
\* mk_and(mk_and(f1, f2), ...); NoInv stands for "no entry"
NoInv == <<>>

\* fml = m.mk_and(inv, fml)
mk_and2(inv, fml) == Append(inv, fml)

\* relations rctx.try_get_relation(p) can hand back
InnerRelations == {"full", "empty", "fact0", "contra"}
InnerRelation(name) == IF name = "full" THEN mk_full(1) ELSE Operand(name, 1).r

\* formulas rb->to_formula(fml) can produce
InnerFormulas ==
    UNION {{to_formula(InnerRelation(name), o) : o \in OutH(InnerRelation(name))}
              : name \in InnerRelations}

\* the retrieval loop storing the new formula in place of the entry
get_invariants_overwrite(d, p, rb, fml) ==
    IF ~rb \/ fml = mk_true THEN d
    ELSE [d EXCEPT !.m_pinned = Append(@, <<fml>>),
                   !.m_fun2inv = [@ EXCEPT ![p] = <<fml>>]]

\* the body of the retrieval loop of get_invariants for predicate p;
\* rb says whether try_get_relation found a relation, fml is its formula
get_invariants_body(d, p, rb, fml) ==
    IF ~rb \/ fml = mk_true THEN d
    ELSE LET fml2 == IF d.m_fun2inv[p] # NoInv THEN mk_and2(d.m_fun2inv[p], fml)
                     ELSE <<fml>>
         IN  [d EXCEPT !.m_pinned = Append(@, fml2),
                       !.m_fun2inv = [@ EXCEPT ![p] = fml2]]

\* m_fun2inv.reset()
EmptyMap == [p \in {Preds[i] : i \in 1..Len(Preds)} |-> NoInv]

\* the driver as its constructor leaves it; pc is where operator() stands,
\* result what it returned, registered whether update_rules added the model
\* converter, annotated the map update_rules used, cancel_seen whether
\* cancel() was called before operator() returned, rb and fml what the last
\* round of the retrieval loop was handed
DrvIdle ==
    [pc |-> "idle", m_cancel |-> FALSE, m_fun2inv |-> EmptyMap, m_pinned |-> <<>>,
     has_mc |-> FALSE, idx |-> 1, runs |-> 0, rb |-> FALSE, fml |-> mk_true,
     result |-> "none", registered |-> FALSE, annotated |-> EmptyMap,
     cancel_seen |-> FALSE, karr |-> TRUE, has_negation |-> FALSE, passes |-> 0]

\* the two early returns of operator() with only the parameter tested
refuses_karr_only(karr, has_negation) == ~karr

\* the two early returns of operator(): the karr parameter is off, or a rule
\* of the source has a negated atom
refuses(karr, has_negation) == ~karr \/ has_negation

\* operator() is entered: the karr parameter and the negation test
Enter(karr, has_negation, has_mc) ==
    /\ drv.pc = "idle" /\ drv.runs < MaxRuns
    /\ drv' = [drv EXCEPT
                 !.runs = @ + 1, !.has_mc = has_mc, !.idx = 1,
                 !.registered = FALSE, !.annotated = EmptyMap,
                 !.cancel_seen = drv.m_cancel,
                 !.karr = karr, !.has_negation = has_negation, !.passes = 0,
                 !.pc = IF refuses(karr, has_negation) THEN "done" ELSE "forward_query",
                 !.result = IF refuses(karr, has_negation) THEN "null" ELSE "none"]
    /\ UNCHANGED <<rel, last, conc, steps, twin>>

\* get_invariants up to m_inner_ctx.rel_query(...)
RelQuery ==
    /\ drv.pc \in {"forward_query", "backward_query"}
    /\ drv' = [drv EXCEPT !.idx = 1, !.passes = @ + 1,
                          !.pc = IF drv.pc = "forward_query" THEN "forward_get"
                                 ELSE "backward_get"]
    /\ UNCHANGED <<rel, last, conc, steps, twin>>

\* one round of the retrieval loop
Retrieve(rb, fml) ==
    /\ drv.pc \in {"forward_get", "backward_get"}
    /\ drv.idx <= Len(Preds)
    /\ drv' = [get_invariants_body(drv, Preds[drv.idx], rb, fml) EXCEPT
                 !.idx = @ + 1, !.rb = rb, !.fml = fml]
    /\ UNCHANGED <<rel, last, conc, steps, twin>>

\* after the first get_invariants: if (m_cancel) return 0
CheckCancel ==
    /\ drv.pc = "forward_get" /\ drv.idx > Len(Preds)
    /\ drv' = [drv EXCEPT !.pc = IF drv.m_cancel THEN "done" ELSE "backward_query",
                          !.result = IF drv.m_cancel THEN "null" ELSE "none"]
    /\ UNCHANGED <<rel, last, conc, steps, twin>>

\* update_rules: the rules are annotated from m_fun2inv; the model converter
\* is added when the context has one
update_rules ==
    /\ drv.pc = "backward_get" /\ drv.idx > Len(Preds)
    /\ drv' = [drv EXCEPT !.pc = "revert", !.annotated = drv.m_fun2inv,
                          !.registered = drv.has_mc]
    /\ UNCHANGED <<rel, last, conc, steps, twin>>

\* lc.revert; m_pinned.reset(); m_fun2inv.reset(); return rules
ReturnRules ==
    /\ drv.pc = "revert"
    /\ drv' = [drv EXCEPT !.pc = "done", !.result = "rules",
                          !.m_pinned = <<>>, !.m_fun2inv = EmptyMap]
    /\ UNCHANGED <<rel, last, conc, steps, twin>>

\* the caller has the result and may call operator() again
Again ==
    /\ drv.pc = "done" /\ drv.runs < MaxRuns
    /\ drv' = [drv EXCEPT !.pc = "idle", !.result = "none"]
    /\ UNCHANGED <<rel, last, conc, steps, twin>>

\* cancel(), from another thread, at any time
cancel ==
    /\ ~drv.m_cancel
    /\ drv' = [drv EXCEPT !.m_cancel = TRUE,
                          !.cancel_seen = @ \/ drv.pc # "done"]
    /\ UNCHANGED <<rel, last, conc, steps, twin>>

(***************************************************************************)
(* update_rules and update_body.  A rule is a head atom, a tail whose      *)
(* first utsz members are predicate atoms, and a name; m_fun2inv gives a   *)
(* predicate its invariant over the variables 0 .. arity-1, or NoInv.      *)
(***************************************************************************)
Atom(pred, args) == [k |-> "atom", pred |-> pred, args |-> args]
Rule(head, tail, utsz, name) == [head |-> head, tail |-> tail, utsz |-> utsz, name |-> name]

\* the replacement done one variable after the other, each on the result
\* of the one before
RECURSIVE replace_one(_, _, _)
replace_one(e, j, t) ==
    IF e.k = "var" THEN (IF e.i = j THEN t ELSE e)
    ELSE [e EXCEPT !.args = [i \in 1..Len(e.args) |-> replace_one(e.args[i], j, t)]]
safe_replace_seq(e, args) ==
    IF Len(args) = 0 THEN e
    ELSE IF Len(args) = 1 THEN replace_one(e, 0, args[1])
    ELSE replace_one(replace_one(e, 0, args[1]), 1, args[2])

\* expr_safe_replace with var j |-> args[j+1]: every occurrence of a mapped
\* variable is replaced by its image, and the image is not looked at again
RECURSIVE safe_replace(_, _)
safe_replace(e, args) ==
    IF e.k = "var" THEN (IF e.i < Len(args) THEN args[e.i + 1] ELSE e)
    ELSE [e EXCEPT !.args = [i \in 1..Len(e.args) |-> safe_replace(e.args[i], args)]]

\* rm.mk(head, tail.size(), tail.c_ptr(), 0, name)
rm_mk(head, tail, utsz, name) == Rule(head, tail, utsz, name)

\* the second loop of update_body, at uninterpreted tail atom i
RECURSIVE update_body_loop(_, _, _, _)
update_body_loop(fun2inv, r, i, tail) ==
    IF i >= r.utsz THEN tail
    ELSE update_body_loop(fun2inv, r, i + 1,
            IF fun2inv[r.tail[i + 1].pred] # NoInv
            THEN Append(tail, safe_replace(fun2inv[r.tail[i + 1].pred],
                                           r.tail[i + 1].args))
            ELSE tail)

\* the rule update_body adds to the new rule set
update_body_rule(r, tail) ==
    IF Len(tail) # Len(r.tail) THEN rm_mk(r.head, tail, r.utsz, r.name) ELSE r
update_body(fun2inv, r) == update_body_rule(r, update_body_loop(fun2inv, r, 0, r.tail))

\* rules over p and q of arity 2 and the variables 0, 1, 2
SrcRules ==
    <<Rule(Atom("p", <<Var(0), Var(1)>>), <<Eq(Var(0), Num(0))>>, 0, "r1"),
      Rule(Atom("p", <<Var(1), Var(0)>>), <<Atom("q", <<Var(1), Var(0)>>)>>, 1, "r2"),
      Rule(Atom("q", <<Var(0), Var(2)>>),
           <<Atom("p", <<Var(0), Var(1)>>), Atom("q", <<Var(1), Var(2)>>),
             Le(Var(0), Var(2))>>, 2, "r3"),
      Rule(Atom("q", <<Var(0), Var(0)>>),
           <<Atom("q", <<Var(1), Num(1)>>), Atom("q", <<Add(Var(0), Var(1)), Var(2)>>)>>,
           2, "r4"),
      Rule(Atom("p", <<Var(0), Var(0)>>), <<Atom("p", <<Var(2), Var(1)>>)>>, 1, "r5")>>

\* the rule sets update_rules is called with, as lists of indices of SrcRules
RuleSets == {<<1, 2, 3>>, <<2, 4>>, <<5, 3, 1>>, <<1>>, <<4, 5>>, <<3>>}

\* invariants the two passes can leave for a predicate of arity 2
InvExprs == {Eq(Var(0), Num(0)), Le(Var(0), Var(1)), Eq(Add(Var(0), Var(1)), Num(1))}
InvMaps == [{"p", "q"} -> {NoInv} \cup InvExprs]

(***************************************************************************)
(* add_invariant_model_converter.  A model gives a predicate no            *)
(* interpretation, or one whose default (else) is a formula or is unset    *)
(* (a partial interpretation); the interpretations have no entries.        *)
(***************************************************************************)
Null == Node("null", FALSE, 0, 0, <<>>)
BTrue == Node("true", FALSE, 0, 0, <<>>)
BFalse == Node("false", FALSE, 0, 0, <<>>)
And(e1, e2) == Node("and", FALSE, 0, 0, <<e1, e2>>)

\* bool_rewriter::mk_and of two formulas
bool_mk_and(e1, e2) ==
    IF e1 = BFalse \/ e2 = BFalse THEN BFalse
    ELSE IF e1 = BTrue THEN e2
    ELSE IF e2 = BTrue \/ e1 = e2 THEN e1
    ELSE And(e1, e2)

NoInterp == [present |-> FALSE, else |-> Null]
Interp(e) == [present |-> TRUE, else |-> e]
is_partial(f) == f.else = Null

NoKmc == [present |-> FALSE, m_funcs |-> <<>>, m_invs |-> <<>>]

\* add(p, inv)
kmc_add(kmc, p, inv) ==
    IF inv # BTrue
    THEN [kmc EXCEPT !.m_funcs = Append(@, p), !.m_invs = Append(@, inv)]
    ELSE kmc

\* one round of operator()(model_ref&) with the invariant put in place of
\* the default of a partial interpretation
kmc_round_fill(mr, p, inv) ==
    IF mr[p].present
    THEN [mr EXCEPT ![p] = Interp(IF ~is_partial(mr[p])
                                   THEN bool_mk_and(mr[p].else, inv) ELSE inv)]
    ELSE [mr EXCEPT ![p] = Interp(BFalse)]

\* one round of operator()(model_ref&): body starts unset, and
\* f->set_else(body) ends the round
kmc_round(mr, p, inv) ==
    IF mr[p].present
    THEN [mr EXCEPT ![p] = Interp(IF ~is_partial(mr[p])
                                   THEN bool_mk_and(mr[p].else, inv) ELSE Null)]
    ELSE [mr EXCEPT ![p] = Interp(BFalse)]

RECURSIVE kmc_apply(_, _, _)
kmc_apply(kmc, mr, i) ==
    IF i > Len(kmc.m_funcs) THEN mr
    ELSE kmc_apply(kmc, kmc_round(mr, kmc.m_funcs[i], kmc.m_invs[i]), i + 1)

\* the predicates src.begin_grouped_rules() runs over: the heads of src
grouped(src) ==
    SelectSeq(Preds, LAMBDA p : \E i \in 1..Len(src) : SrcRules[src[i]].head.pred = p)

\* the loop of update_rules filling the model converter
RECURSIVE update_rules_kmc(_, _, _, _)
update_rules_kmc(fun2inv, g, i, kmc) ==
    IF i > Len(g) THEN kmc
    ELSE update_rules_kmc(fun2inv, g, i + 1,
            IF fun2inv[g[i]] # NoInv THEN kmc_add(kmc, g[i], fun2inv[g[i]]) ELSE kmc)

\* models the converter is applied to
ModelElses == {Null, BTrue, BFalse, Ge(Var(0), Num(0))}
Models == [{"p", "q"} -> {NoInterp} \cup {Interp(e) : e \in ModelElses}]
NoModel == [p \in {"p", "q"} |-> NoInterp]

(***************************************************************************)
(* State: rel is the relation the evaluator is working on, conc the ground *)
(* tuples derived for it, last what the most recent operation was given    *)
(* and what it handed back besides rel.                                    *)
(***************************************************************************)
NoOp == [op |-> "init", o1 |-> "none", o2 |-> "none", exc |-> FALSE,
         delta |-> NoDelta, other |-> mk_empty(0),
         col |-> 0, val |-> SymElem, cols |-> <<>>, arg |-> "none",
         side |-> 0, copied |-> FALSE, kinds |-> <<>>, closure |-> FALSE,
         fact |-> <<>>, cond |-> <<>>]

\* twin is the second relation of a clone() call (the original or the clone,
\* whichever the evaluator is not working on); shares says whether its
\* matrices share rows with those of rel
NoTwin == [present |-> FALSE, r |-> mk_empty(0), shares |-> FALSE]

\* the twin as a caller reads it
twin_view(t, r) ==
    IF t.present /\ t.shares
    THEN [t.r EXCEPT !.m_ineqs = r.m_ineqs, !.m_basis = r.m_basis]
    ELSE t.r

\* the evaluator starts from a relation the plugin made with mk_empty / mk_full
Init ==
    /\ rel \in {mk_empty(n) : n \in Widths} \cup {mk_full(n) : n \in Widths}
    /\ conc = IF rel.m_empty THEN {} ELSE Tuples(rel.sig)
    /\ last = NoOp
    /\ steps = 0
    /\ drv = DrvIdle
    /\ twin = NoTwin

\* every operation counts as one step of the run; the driver is not involved
Tick == steps < MaxOps /\ steps' = steps + 1 /\ UNCHANGED <<drv, twin>>

MkEmpty(n) ==
    /\ Tick
    /\ rel' = mk_empty(n)
    /\ last' = [NoOp EXCEPT !.op = "mk_empty"]

MkFull(n) ==
    /\ Tick
    /\ rel' = mk_full(n)
    /\ last' = [NoOp EXCEPT !.op = "mk_full"]

AddFact(f) ==
    /\ Tick
    /\ add_fact_assert(rel)
    /\ rel' = add_fact(rel, f)
    /\ last' = [NoOp EXCEPT !.op = "add_fact", !.fact = f]

AddFactConc(f) == IF fact_is_ground(f) THEN conc \cup {fact_tuple(f)} ELSE conc

\* the evaluator goes on with the clone; other is the original
Clone ==
    /\ Tick
    /\ rel' = clone(rel)
    /\ last' = [NoOp EXCEPT !.op = "clone", !.other = rel]

\* join_fn::operator(): result = mk_full(0, sig); result->mk_join(r1, r2, ...).
\* rel is joined with the operand x (side 1: rel is r1, side 2: rel is r2);
\* other is the operand as the call leaves it.
JoinResult(r1, r2, o1, o2, exc, side, name, cols) ==
    /\ Tick
    /\ rel' = mk_join(mk_full(2 * rel.sig), r1, r2, cols, cols)
    /\ last' = [NoOp EXCEPT !.op = "join", !.o1 = o1, !.o2 = o2, !.exc = exc,
                            !.other = IF side = 1 THEN r2 ELSE r1,
                            !.cols = cols, !.arg = name, !.side = side]

\* mk_join requests the constraint forms when neither operand is empty
JoinArgs(a1, a2, both, side, name, cols) ==
    \E o1 \in (IF both THEN OutH(a1) ELSE {"none"}) :
    \E o2 \in (IF both THEN OutH(a2) ELSE {"none"}) :
       JoinResult(IF both THEN get_ineqs(a1, o1) ELSE a1,
                  IF both THEN get_ineqs(a2, o2) ELSE a2,
                  o1, o2,
                  both /\ (init_ineqs_exc(a1, o1) \/ init_ineqs_exc(a2, o2)),
                  side, name, cols)

JoinOperand(side, name, pos) == IF side = pos THEN rel ELSE Operand(name, rel.sig).r

Join(side, name, cols) ==
    /\ 2 * rel.sig \in Widths
    /\ JoinArgs(JoinOperand(side, name, 1), JoinOperand(side, name, 2),
                ~empty(JoinOperand(side, name, 1)) /\ ~empty(JoinOperand(side, name, 2)),
                side, name, cols)

JoinConc(side, name, cols) ==
    LET xc == Operand(name, rel.sig).c
    IN  conc_join(IF side = 2 THEN xc ELSE conc, IF side = 1 THEN xc ELSE conc, cols, cols)

\* project_fn::operator(): result = mk_full(0, sig); result->mk_project(r, ...);
\* other is r as the call leaves it
Project(cols) ==
    /\ Tick
    /\ cols \in RemovedCols(rel.sig)
    /\ \E o \in (IF rel.m_empty THEN {"none"} ELSE OutI(rel)) :
          /\ rel' = mk_project(mk_full(rel.sig - Len(cols)), rel, cols, o)
          /\ last' = [NoOp EXCEPT !.op = "project", !.o1 = o,
                                  !.exc = ~rel.m_empty /\ init_basis_exc(rel, o),
                                  !.other = mk_project_src(rel, o), !.cols = cols]

\* rename_fn::operator(): result = mk_full(0, sig); result->mk_rename(r, ...)
Rename(cols) ==
    /\ Tick
    /\ cols \in Cycles(rel.sig)
    /\ rel' = mk_rename(mk_full(rel.sig), rel, cols)
    /\ last' = [NoOp EXCEPT !.op = "rename", !.other = rel, !.cols = cols]

\* union_fn::operator(): r.mk_union(src, delta); a delta is handed in empty;
\* other is src as the call leaves it
UnionResult(u, osrc, oself, exc, name) ==
    /\ Tick
    /\ rel' = u.self
    /\ last' = [NoOp EXCEPT !.op = "union", !.o1 = osrc, !.o2 = oself,
                            !.delta = u.delta, !.other = u.src,
                            !.exc = exc, !.arg = name, !.copied = u.copied]

UnionArgs(src, d, name) ==
    \E osrc \in (IF union_calls_src(rel, src) THEN OutI(src) ELSE {"none"}) :
    \E oself \in (IF union_calls_self(rel, src, osrc) THEN OutI(rel) ELSE {"none"}) :
       UnionResult(mk_union(rel, src, d, osrc, oself), osrc, oself,
                   \/ union_calls_src(rel, src) /\ init_basis_exc(src, osrc)
                   \/ union_calls_self(rel, src, osrc) /\ init_basis_exc(rel, oself),
                   name)

Union(name, with_delta) ==
    UnionArgs(Operand(name, rel.sig).r,
              IF with_delta THEN Delta(mk_empty(rel.sig)) ELSE NoDelta, name)

FilterIdentical(cols) ==
    /\ Tick
    /\ cols \in IdentCols(rel.sig)
    /\ \E o \in OutH(rel) :
          LET r2 == filter_identical(rel, cols, o)
          IN  /\ rel' = r2
              /\ last' = [NoOp EXCEPT !.op = "filter_identical", !.o1 = o,
                                      !.exc = init_ineqs_exc(rel, o), !.cols = cols]

FilterIdenticalConc(cols) ==
    {t \in conc : \A i \in 1..Len(cols) : t[cols[i] + 1] = t[cols[1] + 1]}

FilterEqual(col, value) ==
    /\ Tick
    /\ col < rel.sig
    /\ \E o \in (IF filter_equal_valid(value) THEN OutH(rel) ELSE {"none"}) :
          LET r2 == filter_equal(rel, col, value, o)
          IN  /\ rel' = r2
              /\ last' = [NoOp EXCEPT !.op = "filter_equal", !.o1 = o,
                             !.exc = filter_equal_valid(value) /\ init_ineqs_exc(rel, o),
                             !.col = col, !.val = value]

\* tuples whose column col is the element value
FilterEqualConc(col, value) ==
    {t \in conc : is_int_numeral(value) /\ t[col + 1] = value.val}

FilterInterpreted(name) ==
    /\ Tick
    /\ \E o \in OutH(rel) :
          LET r2 == filter_interpreted(rel, Cond(name), o)
          IN  /\ rel' = r2
              /\ last' = [NoOp EXCEPT !.op = "filter_interpreted", !.o1 = o,
                                      !.exc = init_ineqs_exc(rel, o), !.arg = name]

\* filter_interpreted with a condition given as its conjuncts
FilterCond(conjs) ==
    /\ Tick
    /\ last.op # "filter_interpreted"
    /\ \E o \in OutH(rel) :
          /\ rel' = filter_interpreted(rel, conjs, o)
          /\ last' = [NoOp EXCEPT !.op = "filter_interpreted", !.o1 = o,
                                  !.exc = init_ineqs_exc(rel, o), !.cond = conjs,
                                  !.other = rel]

FilterInterpretedConc(name) == {t \in conc : holds_all(Cond(name), t)}

ToFormula ==
    /\ Tick
    /\ \E o \in (IF empty(rel) THEN {"none"} ELSE OutH(rel)) :
          /\ rel' = to_formula_src(rel, o)
          /\ last' = [NoOp EXCEPT !.op = "to_formula", !.o1 = o,
                                  !.exc = ~empty(rel) /\ init_ineqs_exc(rel, o)]

\* the accessors, as the operators above call them on a non-empty relation
GetIneqs ==
    /\ Tick
    /\ ~empty(rel)
    /\ \E o \in OutH(rel) :
          /\ rel' = get_ineqs(rel, o)
          /\ last' = [NoOp EXCEPT !.op = "get_ineqs", !.o1 = o,
                                  !.exc = init_ineqs_exc(rel, o)]

GetBasis ==
    /\ Tick
    /\ ~empty(rel)
    /\ \E o \in OutI(rel) :
          /\ rel' = get_basis(rel, o)
          /\ last' = [NoOp EXCEPT !.op = "get_basis", !.o1 = o,
                                  !.exc = init_basis_exc(rel, o)]

\* the relation manager asks a factory for a closure
MkFn(fn, k) ==
    /\ Tick
    /\ rel' = rel
    /\ last' = [NoOp EXCEPT !.op = "mk_fn", !.arg = fn, !.kinds = k,
                            !.closure = mk_fn(fn, k)]

\* the relational operators alone
Next ==
    \/ \E n \in Widths : MkEmpty(n) /\ UNCHANGED conc
    \/ \E n \in Widths : MkFull(n) /\ UNCHANGED conc
    \/ \E f \in Facts(rel.sig) : AddFact(f) /\ UNCHANGED conc
    \/ Clone /\ UNCHANGED conc
    \/ \E side \in {1, 2} : \E name \in JoinOperands : \E cols \in JoinPairs :
          Join(side, name, cols) /\ UNCHANGED conc
    \/ \E cols \in RemovedCols(rel.sig) : Project(cols) /\ UNCHANGED conc
    \/ \E cols \in Cycles(rel.sig) : Rename(cols) /\ UNCHANGED conc
    \/ \E name \in OperandNames : \E wd \in BOOLEAN :
          Union(name, wd) /\ UNCHANGED conc
    \/ \E cols \in IdentCols(rel.sig) : FilterIdentical(cols) /\ UNCHANGED conc
    \/ \E col \in {0, 1} : \E v \in FilterElems : FilterEqual(col, v) /\ UNCHANGED conc
    \/ \E name \in CondNames : FilterInterpreted(name) /\ UNCHANGED conc
    \/ ToFormula /\ UNCHANGED conc
    \/ GetIneqs /\ UNCHANGED conc
    \/ GetBasis /\ UNCHANGED conc

Spec == Init /\ [][Next]_vars

\* the relational operators together with the ground tuples they stand for
NextSound ==
    \/ \E n \in Widths : MkEmpty(n) /\ conc' = {}
    \/ \E n \in Widths : MkFull(n) /\ conc' = Tuples(n)
    \/ \E f \in Facts(rel.sig) : AddFact(f) /\ conc' = AddFactConc(f)
    \/ Clone /\ UNCHANGED conc
    \/ \E side \in {1, 2} : \E name \in JoinOperands : \E cols \in JoinPairs :
          Join(side, name, cols) /\ conc' = JoinConc(side, name, cols)
    \/ \E cols \in RemovedCols(rel.sig) :
          Project(cols) /\ conc' = conc_project(conc, cols)
    \/ \E cols \in Cycles(rel.sig) : Rename(cols) /\ conc' = conc_rename(conc, cols)
    \/ \E name \in OperandNames : \E wd \in BOOLEAN :
          Union(name, wd) /\ conc' = conc \cup Operand(name, rel.sig).c
    \/ \E cols \in IdentCols(rel.sig) :
          FilterIdentical(cols) /\ conc' = FilterIdenticalConc(cols)
    \/ \E col \in {0, 1} : \E v \in FilterElems :
          FilterEqual(col, v) /\ conc' = FilterEqualConc(col, v)
    \/ \E name \in CondNames :
          FilterInterpreted(name) /\ conc' = FilterInterpretedConc(name)
    \/ ToFormula /\ UNCHANGED conc
    \/ GetIneqs /\ UNCHANGED conc
    \/ GetBasis /\ UNCHANGED conc

SpecSound == Init /\ [][NextSound]_vars

\* clone() with the original kept next to the clone
CloneTwin ==
    /\ steps < MaxOps /\ steps' = steps + 1 /\ UNCHANGED drv
    /\ ~twin.present
    /\ rel' = clone(rel)
    /\ twin' = [present |-> TRUE, r |-> rel,
                shares |-> shares_rows(rel.m_ineqs) \/ shares_rows(rel.m_basis)]
    /\ last' = [NoOp EXCEPT !.op = "clone", !.other = rel]

\* the evaluator turns to the other of the two relations
SwapTwin ==
    /\ twin.present /\ last.op # "swap"
    /\ rel' = twin_view(twin, rel)
    /\ twin' = [twin EXCEPT !.r = rel]
    /\ last' = [NoOp EXCEPT !.op = "swap"]
    /\ UNCHANGED <<steps, drv>>

\* a relation, its clone, and operations on either of them
NextClone ==
    \/ CloneTwin /\ UNCHANGED conc
    \/ SwapTwin /\ UNCHANGED conc
    \/ \E f \in Facts(rel.sig) : AddFact(f) /\ UNCHANGED conc
    \/ \E name \in OperandNames : \E wd \in BOOLEAN :
          Union(name, wd) /\ UNCHANGED conc
    \/ \E cols \in IdentCols(rel.sig) : FilterIdentical(cols) /\ UNCHANGED conc
    \/ \E col \in {0, 1} : \E v \in FilterElems : FilterEqual(col, v) /\ UNCHANGED conc
    \/ \E name \in CondNames : FilterInterpreted(name) /\ UNCHANGED conc
    \/ GetIneqs /\ UNCHANGED conc
    \/ GetBasis /\ UNCHANGED conc

SpecClone == Init /\ [][NextClone]_vars

\* the factories alone, called with relations of either kind
NextFactory ==
    \E fn \in Factories : \E k \in FactoryArgs(fn) : MkFn(fn, k) /\ UNCHANGED conc

SpecFactory == Init /\ [][NextFactory]_vars

\* Relations over three columns, for the operators that move columns: the
\* evaluator starts from an empty or full relation, a fact, a fact whose
\* basis was requested, or a full relation filtered by x0 = x1.
WideWidth == 3
WideFacts == {<<IntElem(0), IntElem(1), IntElem(1)>>, <<IntElem(1), IntElem(0), IntElem(0)>>,
              <<IntElem(1), RatElem, IntElem(0)>>}

InitWide ==
    /\ rel \in {mk_empty(WideWidth), mk_full(WideWidth),
                filter_identical(mk_full(WideWidth), <<0, 1>>, "none")}
               \cup {add_fact(mk_empty(WideWidth), f) : f \in WideFacts}
               \cup {get_basis(add_fact(mk_empty(WideWidth), f), l_true) : f \in WideFacts}
    /\ conc = {}
    /\ last = NoOp
    /\ steps = 0
    /\ drv = DrvIdle
    /\ twin = NoTwin

NextWide ==
    \/ \E cols \in Cycles(rel.sig) : Rename(cols) /\ UNCHANGED conc
    \/ \E cols \in RemovedCols(rel.sig) : Project(cols) /\ UNCHANGED conc
    \/ \E cols \in IdentCols(rel.sig) : FilterIdentical(cols) /\ UNCHANGED conc
    \/ \E f \in Facts(rel.sig) : AddFact(f) /\ UNCHANGED conc
    \/ GetIneqs /\ UNCHANGED conc
    \/ GetBasis /\ UNCHANGED conc

SpecWide == InitWide /\ [][NextWide]_vars

\* filter_interpreted on relations over two columns, once in a run
FilterWidth == 2
InitFilter ==
    /\ rel \in {mk_full(FilterWidth),
                filter_identical(mk_full(FilterWidth), <<0, 1>>, "none"),
                add_fact(mk_empty(FilterWidth), <<IntElem(0), IntElem(1)>>)}
    /\ conc = {}
    /\ last = NoOp
    /\ steps = 0
    /\ drv = DrvIdle
    /\ twin = NoTwin

NextFilter ==
    \/ \E conjs \in FilterConds : FilterCond(conjs) /\ UNCHANGED conc
    \/ GetIneqs /\ UNCHANGED conc
    \/ GetBasis /\ UNCHANGED conc

SpecFilter == InitFilter /\ [][NextFilter]_vars

\* unions into one target, the sources taken from Operand
InitUnion ==
    /\ rel \in UNION {{mk_full(n)} \cup {Operand(name, n).r : name \in OperandNames}
                         : n \in Widths}
    /\ conc = {}
    /\ last = NoOp
    /\ steps = 0
    /\ drv = DrvIdle
    /\ twin = NoTwin

NextUnion ==
    \E name \in OperandNames : \E wd \in BOOLEAN : Union(name, wd) /\ UNCHANGED conc

SpecUnion == InitUnion /\ [][NextUnion]_vars

\* the driver alone: operator() entered up to MaxRuns times, cancel() at any time
InitDriver ==
    /\ rel = mk_empty(1)
    /\ conc = {}
    /\ last = NoOp
    /\ steps = 0
    /\ drv = DrvIdle
    /\ twin = NoTwin

NextDriver ==
    \/ \E karr \in BOOLEAN : \E neg \in BOOLEAN : \E mc \in BOOLEAN : Enter(karr, neg, mc)
    \/ RelQuery
    \/ \E fml \in InnerFormulas : Retrieve(TRUE, fml)
    \/ Retrieve(FALSE, mk_true)
    \/ CheckCancel
    \/ update_rules
    \/ ReturnRules
    \/ Again
    \/ cancel

SpecDriver == InitDriver /\ [][NextDriver]_vars

\* update_rules on its own: last holds the map and the source it is called
\* with, the rules added so far, the converter it registers, and the model
\* the converter is later applied to
InitRules ==
    /\ rel = mk_empty(1)
    /\ conc = {}
    /\ steps = 0
    /\ drv = DrvIdle
    /\ twin = NoTwin
    /\ \E m \in InvMaps : \E src \in RuleSets : \E mc \in BOOLEAN :
          last = [op |-> "update_rules", m_fun2inv |-> m, src |-> src, dst |-> <<>>,
                  has_mc |-> mc, kmc |-> NoKmc, mr_in |-> NoModel, mr |-> NoModel]

\* update_body(*dst, **it) for the next rule of src
UpdateBody ==
    /\ last.op \in {"update_rules", "update_body"}
    /\ Len(last.dst) < Len(last.src)
    /\ last' = [last EXCEPT
                  !.op = "update_body",
                  !.dst = Append(@, update_body(last.m_fun2inv,
                                                SrcRules[last.src[Len(last.dst) + 1]]))]
    /\ UNCHANGED <<rel, conc, steps, drv, twin>>

\* if (m_ctx.get_model_converter()) { ... m_ctx.add_model_converter(kmc); }
AddConverter ==
    /\ last.op \in {"update_rules", "update_body"}
    /\ Len(last.dst) = Len(last.src) /\ last.has_mc
    /\ last' = [last EXCEPT
                  !.op = "add_model_converter",
                  !.kmc = update_rules_kmc(last.m_fun2inv, grouped(last.src), 1,
                                           [NoKmc EXCEPT !.present = TRUE])]
    /\ UNCHANGED <<rel, conc, steps, drv, twin>>

\* the registered converter is applied to a model
Convert(mr) ==
    /\ last.op = "add_model_converter"
    /\ last' = [last EXCEPT !.op = "convert", !.mr_in = mr,
                             !.mr = kmc_apply(last.kmc, mr, 1)]
    /\ UNCHANGED <<rel, conc, steps, drv, twin>>

NextRules ==
    \/ UpdateBody
    \/ AddConverter
    \/ \E mr \in Models : Convert(mr)

SpecRules == InitRules /\ [][NextRules]_vars

(***************************************************************************)
(* Properties.                                                             *)
(***************************************************************************)
\* integer points the two forms are compared on
Points(n) == [1..n -> HBRange]

\* the rows of a matrix, as a set
rows(M) == {<<M.A[i], M.b[i], M.eq[i]>> : i \in 1..size(M)}

\* number of rows of M whose constant is 1
ones(M) == Cardinality({i \in 1..size(M) : M.b[i] = 1})

Undecided == {l_undef, throws}

\* the last operation was a filter that added a row to the constraint form
filter_added_row ==
    \/ last.op = "filter_identical" /\ Len(last.cols) >= 2
    \/ last.op = "filter_equal" /\ is_int_numeral(last.val)
    \/ last.op = "filter_interpreted"
       /\ size(filter_conjs(EmptyMatrix, Cond(last.arg), 1, rel.sig)) > 0

\* C1: soundness -- whatever add_fact, join, filter, project, rename and
\* union steps were taken and whatever the saturator answered, the point set
\* the relation denotes contains every ground tuple derived for it.
C1_Soundness == conc \subseteq gamma(rel, Tuples(rel.sig))

\* C2: after a filter that added a constraint row (filter_identical with at
\* least two columns, filter_equal with an integer numeral, filter_interpreted
\* with a recognised atom) basis_valid is false, whatever it was before.
C2_FilterInvalidatesBasis == filter_added_row => ~rel.m_basis_valid

\* C3: representation consistency -- a non-empty relation with both forms
\* flagged valid has constraint form and basis denoting the same point set.
C3_RepresentationConsistency ==
    (~rel.m_empty /\ rel.m_ineqs_valid /\ rel.m_basis_valid)
        => ineqs_points(rel.m_ineqs, Points(rel.sig))
               = basis_points(rel.m_basis, rel.sig, Points(rel.sig))

\* C4: filter_equal(col, value) with an integer numeral v appends to the
\* constraint form exactly the equality row x_col - v = 0 (coefficient 1 at
\* col, zeros elsewhere, constant -v); with any other value the relation is
\* left as it was.
C4_FilterEqualRow ==
    [][last'.op = "filter_equal" =>
          IF is_int_numeral(last'.val)
          THEN rel'.m_ineqs = push_row(get_ineqs(rel, last'.o1).m_ineqs,
                                       unit_row(rel.sig, last'.col, 1),
                                       -last'.val.val, TRUE)
          ELSE rel' = rel]_vars

\* C5: union is extensive -- after self.mk_union(src, delta) with src
\* non-empty, self is non-empty, denotes every point of src and of the old
\* self, holds every row of src's basis and keeps the rows its basis had.
C5_UnionExtensive ==
    [][(last'.op = "union" /\ ~empty(Operand(last'.arg, rel.sig).r)) =>
          LET src == Operand(last'.arg, rel.sig).r
              S == Points(rel.sig)
          IN  /\ ~rel'.m_empty
              /\ gamma(src, S) \subseteq gamma(rel', S)
              /\ gamma(rel, S) \subseteq gamma(rel', S)
              /\ rows(last'.other.m_basis) \subseteq rows(rel'.m_basis)
              /\ (~rel.m_empty /\ rel.m_basis_valid)
                     => rows(rel.m_basis) \subseteq rows(rel'.m_basis)]_vars

\* C6: a relation filtered by x0 = 0 and x0 = 1, unioned into an empty
\* relation, leaves that relation empty: empty() holds and to_formula is false.
C6_InfeasibleUnionEmpty ==
    [][(last'.op = "union" /\ last'.arg = "contra" /\ empty(rel)) =>
          /\ empty(rel')
          /\ \A o \in OutH(rel') : to_formula(rel', o) = mk_false]_vars

\* C7: every relation whose empty flag is false has ineqs_valid or
\* basis_valid true -- the relation worked on, the other relation of the
\* last operation, and the delta a union wrote.
C7_SomeFormValid ==
    \A r \in {rel, last.other} \cup (IF last.delta.present THEN {last.delta.r} ELSE {}) :
        ~r.m_empty => (r.m_ineqs_valid \/ r.m_basis_valid)

C7_Witness ==
    /\ last.op = "union" /\ last.delta.present
    /\ ~rel.m_empty /\ ~rel.m_ineqs_valid /\ rel.m_basis_valid
    /\ ~last.delta.r.m_empty

\* C8: when a non-empty relation's basis is materialised from its constraint
\* form and the saturator answers UNSAT, the relation's empty flag is true
\* afterwards (to_formula yields false) and basis_valid is still false --
\* for get_basis, for the source of a project and for both sides of a union.
C8_UnsatMarksEmpty ==
    /\ (last.op = "get_basis" /\ last.o1 = l_false)
          => rel.m_empty /\ ~rel.m_basis_valid /\ to_formula(rel, "none") = mk_false
    /\ (last.op \in {"project", "union"} /\ last.o1 = l_false)
          => last.other.m_empty /\ ~last.other.m_basis_valid
             /\ to_formula(last.other, "none") = mk_false
    /\ (last.op = "union" /\ last.o2 = l_false)
          => rel.m_empty /\ ~rel.m_basis_valid /\ to_formula(rel, "none") = mk_false

C8_Witness ==
    /\ last.op = "get_basis" /\ last.o1 = l_false
    /\ size(rel.m_ineqs) > 0 /\ rel.m_empty

\* C9: an undecided or throwing saturator is treated as top, never as
\* infeasibility: dualizeI reports success with an empty basis and the
\* relation is not marked empty; dualizeH gives an empty constraint matrix
\* for every answer other than SAT; the form so written denotes every point;
\* no exception leaves the operation.
C9_UndefIsTop ==
    /\ ~last.exc
    /\ \A o \in Undecided :
          dualizeI(rel.m_ineqs, o) = [ret |-> TRUE, dst |-> EmptyMatrix, exc |-> FALSE]
    /\ \A o \in Undecided \cup {l_false} :
          dualizeH(rel.m_basis, o) = [dst |-> EmptyMatrix, exc |-> FALSE]
    /\ (last.op = "get_basis" /\ last.o1 \in Undecided)
          => /\ ~rel.m_empty /\ rel.m_basis_valid /\ size(rel.m_basis) = 0
             /\ basis_points(rel.m_basis, rel.sig, Points(rel.sig)) = Points(rel.sig)
    /\ (last.op = "get_ineqs" /\ last.o1 \in Undecided)
          => /\ rel.m_ineqs_valid /\ size(rel.m_ineqs) = 0
             /\ ineqs_points(rel.m_ineqs, Points(rel.sig)) = Points(rel.sig)

C9_Witness ==
    /\ last.op = "get_basis" /\ last.o1 = throws
    /\ size(rel.m_ineqs) > 0
    /\ ~rel.m_empty /\ rel.m_basis_valid

\* C10 as stated: every row of a valid basis has eq = true and b in {0, 1},
\* and the valid basis of a non-empty relation has exactly one row with b = 1.
C10_ExactlyOneInitial ==
    rel.m_basis_valid =>
        /\ \A i \in 1..size(rel.m_basis) :
              rel.m_basis.eq[i] /\ rel.m_basis.b[i] \in {0, 1}
        /\ ~rel.m_empty => ones(rel.m_basis) = 1

\* C10, amended: every row of a valid basis has eq = true and b in {0, 1};
\* the basis dualizeI writes has at most one row with b = 1; project and
\* rename keep as many rows with b = 1 as the basis they read has.
C10_BasisRows ==
    /\ rel.m_basis_valid =>
          \A i \in 1..size(rel.m_basis) :
             rel.m_basis.eq[i] /\ rel.m_basis.b[i] \in {0, 1}
    /\ (last.op = "get_basis" /\ last.o1 # "none") => ones(rel.m_basis) <= 1
    /\ (last.op = "project" /\ ~rel.m_empty)
          => ones(rel.m_basis) = ones(last.other.m_basis)
    /\ (last.op = "rename" /\ ~rel.m_empty /\ rel.m_basis_valid)
          => ones(rel.m_basis) = ones(last.other.m_basis)

C10_Witness ==
    /\ last.op = "get_basis" /\ last.o1 = l_true
    /\ rel.m_basis_valid
    /\ ones(rel.m_basis) = 1
    /\ \E i \in 1..size(rel.m_basis) : rel.m_basis.b[i] = 0

\* the delta the evaluator handed to the union that made last
delta_in(before, l) == IF l.delta.present THEN Delta(mk_empty(before.sig)) ELSE NoDelta

\* the union that made l from self `before` appended a row to self's basis
union_appended(before, after, l) ==
    /\ ~empty(Operand(l.arg, before.sig).r)
    /\ ~empty(before)
    /\ size(after.m_basis) # size(get_basis(before, l.o2).m_basis)

\* self is non-empty with a valid basis that holds every row of the basis
\* of the non-empty src
union_fixed_point(before, l) ==
    /\ ~empty(before) /\ before.m_basis_valid
    /\ ~empty(Operand(l.arg, before.sig).r)
    /\ rows(l.other.m_basis) \subseteq rows(before.m_basis)

\* C11 as stated: at the fixed point mk_union leaves self.basis and delta as
\* they were, and delta receives a copy of self exactly when a row was
\* appended or self was empty before the call.
C11_UnionSilent ==
    [][last'.op = "union" =>
          /\ union_fixed_point(rel, last')
                 => /\ rel'.m_basis = rel.m_basis
                    /\ last'.delta = delta_in(rel, last')
          /\ last'.delta.present
                 => /\ last'.copied => (union_appended(rel, rel', last') \/ empty(rel))
                    /\ (union_appended(rel, rel', last') \/ empty(rel))
                          => last'.delta.r = copy(mk_empty(rel.sig), rel')]_vars

\* C11, amended: at the fixed point mk_union leaves self.basis and delta as
\* they were; with a non-empty src, delta receives a copy of self exactly
\* when a row was appended or self was empty before the call; with an empty
\* src self is left alone and delta is only marked empty.
C11_UnionSilentNonEmptySrc ==
    [][last'.op = "union" =>
          /\ union_fixed_point(rel, last')
                 => /\ rel'.m_basis = rel.m_basis
                    /\ last'.delta = delta_in(rel, last')
                    /\ ~last'.copied
          /\ (last'.delta.present /\ ~empty(Operand(last'.arg, rel.sig).r))
                 => /\ last'.copied <=> (union_appended(rel, rel', last') \/ empty(rel))
                    /\ last'.copied => last'.delta.r = copy(mk_empty(rel.sig), rel')
          /\ empty(Operand(last'.arg, rel.sig).r)
                 => /\ rel' = rel
                    /\ ~last'.copied
                    /\ last'.delta.present
                          => last'.delta.r = [mk_empty(rel.sig) EXCEPT !.m_empty = TRUE]]_vars

\* a union with a delta that found every row of src's basis in self's basis
C11_Witness ==
    /\ last.op = "union" /\ last.delta.present /\ ~last.copied
    /\ ~empty(last.other) /\ size(last.other.m_basis) > 0
    /\ ~empty(rel) /\ rel.m_basis_valid
    /\ rows(last.other.m_basis) \subseteq rows(rel.m_basis)
    /\ last.delta = Delta(mk_empty(rel.sig))

\* C12: if cancel() was called before operator() returned, operator() returned
\* no rule set and update_rules registered nothing.
C12_CancelNoResult ==
    (drv.pc = "done" /\ drv.cancel_seen) => (drv.result = "null" /\ ~drv.registered)

\* C14: while operator() runs its two passes, a predicate that has an entry
\* in m_fun2inv keeps one; an entry changes only in the retrieval loop, for
\* the predicate the loop is at, to the conjunction of the previous entry
\* with the formula just extracted (or to that formula when there was no
\* entry); an extracted formula equal to true leaves the map as it was.
\* (The map is cleared as a whole when operator() returns the rule set.)
C14_MapMonotone ==
    [][drv.pc # "revert" =>
          /\ \A i \in 1..Len(Preds) :
                LET old == drv.m_fun2inv[Preds[i]]
                    new == drv'.m_fun2inv[Preds[i]]
                IN  /\ old # NoInv => new # NoInv
                    /\ new # old =>
                          /\ drv.pc \in {"forward_get", "backward_get"}
                          /\ i = drv.idx /\ drv'.idx = drv.idx + 1
                          /\ drv'.rb /\ drv'.fml # mk_true
                          /\ new = old \o <<drv'.fml>>
          /\ (drv'.idx = drv.idx + 1 /\ drv'.rb /\ drv'.fml = mk_true)
                => drv'.m_fun2inv = drv.m_fun2inv
          /\ (drv'.idx = drv.idx + 1 /\ drv'.rb /\ drv'.fml # mk_true)
                => drv'.m_fun2inv[Preds[drv.idx]]
                      = drv.m_fun2inv[Preds[drv.idx]] \o <<drv'.fml>>]_vars

\* the backward pass conjoined a formula with the entry of the forward pass
C14_Witness ==
    /\ drv.pc = "backward_get" /\ drv.idx = 2
    /\ drv.rb /\ drv.fml # mk_true
    /\ Len(drv.m_fun2inv[Preds[1]]) = 2
    /\ drv.m_fun2inv[Preds[1]][2] = drv.fml
    /\ drv.m_fun2inv[Preds[1]][1] # drv.fml

\* C13: a factory called with a relation argument that is not of the karr
\* kind returns no closure.
C13_ForeignNoClosure ==
    (last.op = "mk_fn" /\ \E i \in 1..Len(last.kinds) : last.kinds[i] # "karr_relation")
        => ~last.closure

\* the operands of the join that made l from `before`, as the call found
\* them (join_r1, join_r2) and as it left them (join_r1_after, join_r2_after)
join_r1(before, l) == IF l.side = 1 THEN before ELSE Operand(l.arg, before.sig).r
join_r2(before, l) == IF l.side = 2 THEN before ELSE Operand(l.arg, before.sig).r
join_r1_after(before, l) == IF l.side = 1 THEN get_ineqs(before, l.o1) ELSE l.other
join_r2_after(before, l) == IF l.side = 2 THEN get_ineqs(before, l.o2) ELSE l.other

\* C15: mk_join(r1, r2, pairs) gives a relation with empty = true whenever r1
\* or r2 is empty, whatever the pairs and the other operand; otherwise the
\* result has empty = false, ineqs_valid = true and basis_valid = false.
C15_EmptyAbsorbsJoin ==
    [][last'.op = "join" =>
          IF empty(join_r1(rel, last')) \/ empty(join_r2(rel, last'))
          THEN rel'.m_empty
          ELSE ~rel'.m_empty /\ rel'.m_ineqs_valid /\ ~rel'.m_basis_valid]_vars

\* a join of an empty relation with a non-empty one on a pair of columns
C15_Witness ==
    /\ last.op = "join" /\ last.cols = <<0>>
    /\ rel.m_empty
    /\ ~empty(last.other) /\ size(last.other.m_ineqs) > 0

\* C16: for non-empty r1 (width n1) and r2 the constraint form of the join
\* is exactly: the rows of r1.ineqs padded with zeros, then the rows of
\* r2.ineqs moved right by n1 columns (b and eq kept), then for each pair
\* (c1, c2) an equality row with 1 at c1, -1 at n1 + c2 and constant 0; a
\* valid constraint form of r1 or r2 is left as it was.
C16_JoinRows ==
    [][(last'.op = "join" /\ ~rel'.m_empty) =>
          LET M1 == join_r1_after(rel, last').m_ineqs
              M2 == join_r2_after(rel, last').m_ineqs
              n1 == join_r1(rel, last').sig
              n == rel'.sig
              M == rel'.m_ineqs
              cols == last'.cols
          IN  /\ size(M) = size(M1) + size(M2) + Len(cols)
              /\ Len(M.b) = size(M) /\ Len(M.eq) = size(M)
              /\ \A i \in 1..size(M1) :
                    /\ M.A[i] = [j \in 1..n |-> IF j <= n1 THEN M1.A[i][j] ELSE 0]
                    /\ M.b[i] = M1.b[i] /\ M.eq[i] = M1.eq[i]
              /\ \A i \in 1..size(M2) :
                    /\ M.A[size(M1) + i]
                          = [j \in 1..n |-> IF j <= n1 THEN 0 ELSE M2.A[i][j - n1]]
                    /\ M.b[size(M1) + i] = M2.b[i] /\ M.eq[size(M1) + i] = M2.eq[i]
              /\ \A i \in 1..Len(cols) :
                    /\ M.A[size(M1) + size(M2) + i]
                          = [j \in 1..n |-> IF j = cols[i] + 1 THEN 1
                                            ELSE IF j = n1 + cols[i] + 1 THEN -1 ELSE 0]
                    /\ M.b[size(M1) + size(M2) + i] = 0
                    /\ M.eq[size(M1) + size(M2) + i]
              /\ join_r1(rel, last').m_ineqs_valid
                    => M1 = join_r1(rel, last').m_ineqs
              /\ join_r2(rel, last').m_ineqs_valid
                    => M2 = join_r2(rel, last').m_ineqs]_vars

\* a join of two relations with one constraint row each on a pair of columns
C16_Witness ==
    /\ last.op = "join" /\ last.cols = <<0>> /\ last.side = 1
    /\ ~rel.m_empty /\ rel.sig = 2
    /\ size(last.other.m_ineqs) = 1
    /\ size(rel.m_ineqs) = 3
    /\ rel.m_ineqs.A[2] = <<0, 1>> /\ rel.m_ineqs.A[3] = <<1, -1>>

\* the 1-based positions of a row of width n that are not removed columns
kept_columns(n, cols) == {j \in 1..n : \A k \in 1..Len(cols) : cols[k] + 1 # j}

\* the m-th of them in ascending order
kept_column(n, cols, m) ==
    CHOOSE j \in kept_columns(n, cols) :
        Cardinality({k \in kept_columns(n, cols) : k < j}) = m - 1

\* C17: mk_project(r, removed_cols) with removed_cols ascending gives, for a
\* non-empty r, a basis whose i-th row is the i-th row of r.basis without the
\* components at the removed columns and with the others in order (width
\* n - |removed_cols|), b copied and eq = true; basis_valid = true and
\* ineqs_valid = false.
C17_ProjectRows ==
    [][(last'.op = "project" /\ ~rel.m_empty) =>
          LET B == last'.other.m_basis
              R == rel'.m_basis
              cols == last'.cols
              w == rel.sig - Len(cols)
          IN  /\ rel'.sig = w
              /\ size(R) = size(B) /\ Len(R.b) = size(B) /\ Len(R.eq) = size(B)
              /\ \A i \in 1..size(B) :
                    /\ R.A[i] = [m \in 1..w |-> B.A[i][kept_column(rel.sig, cols, m)]]
                    /\ R.b[i] = B.b[i]
                    /\ R.eq[i]
              /\ rel'.m_basis_valid /\ ~rel'.m_ineqs_valid /\ ~rel'.m_empty]_vars

\* a projection that removed two of three columns from a basis with rows
C17_Witness ==
    /\ last.op = "project" /\ last.cols = <<0, 2>>
    /\ ~rel.m_empty /\ rel.sig = 1
    /\ size(rel.m_basis) >= 2
    /\ \E i \in 1..size(last.other.m_basis) :
          /\ last.other.m_basis.A[i][1] # last.other.m_basis.A[i][2]
          /\ last.other.m_basis.A[i][3] # last.other.m_basis.A[i][2]

\* row `new` is row `old` renamed by the cycle cyc: new[cyc[i]] = old[cyc[i+1]],
\* new[cyc[k-1]] = old[cyc[0]], the other columns as they were
renamed_row(new, old, cyc) ==
    /\ Len(new) = Len(old)
    /\ \A t \in 1..Len(cyc) :
          new[cyc[t] + 1] = old[cyc[IF t < Len(cyc) THEN t + 1 ELSE 1] + 1]
    /\ \A j \in 1..Len(old) :
          (\A t \in 1..Len(cyc) : cyc[t] + 1 # j) => new[j] = old[j]

renamed(N, M, cyc) ==
    /\ size(N) = size(M) /\ N.b = M.b /\ N.eq = M.eq
    /\ \A i \in 1..size(M) : renamed_row(N.A[i], M.A[i], cyc)

\* the row for x0 - x1 = 0 renamed by (0, 1, 2) is the row for x2 - x0 = 0
rename_example ==
    rename_matrix(push_row(EmptyMatrix, <<1, -1, 0>>, 0, TRUE), <<0, 1, 2>>)
        = push_row(EmptyMatrix, <<-1, 0, 1>>, 0, TRUE)

\* C18 as stated: mk_rename(r, cycle) maps every row of every valid form by
\* the cycle, b and eq unchanged, and the result has the same ineqs_valid
\* and basis_valid as r.
C18_RenameRows ==
    [][last'.op = "rename" =>
          /\ rel'.m_ineqs_valid = rel.m_ineqs_valid
          /\ rel'.m_basis_valid = rel.m_basis_valid
          /\ rel.m_ineqs_valid => renamed(rel'.m_ineqs, rel.m_ineqs, last'.cols)
          /\ rel.m_basis_valid => renamed(rel'.m_basis, rel.m_basis, last'.cols)
          /\ rename_example]_vars

\* C18, amended: for a non-empty r, mk_rename(r, cycle) maps every row of
\* every valid form by the cycle, b and eq unchanged, and the result is
\* non-empty with the same ineqs_valid and basis_valid as r; for an empty r
\* the result is a new full relation marked empty, without rows.
C18_RenameRowsNonEmpty ==
    [][last'.op = "rename" =>
          IF empty(rel)
          THEN rel' = [mk_full(rel.sig) EXCEPT !.m_empty = TRUE]
          ELSE /\ ~rel'.m_empty
               /\ rel'.m_ineqs_valid = rel.m_ineqs_valid
               /\ rel'.m_basis_valid = rel.m_basis_valid
               /\ rel.m_ineqs_valid => renamed(rel'.m_ineqs, rel.m_ineqs, last'.cols)
               /\ rel.m_basis_valid => renamed(rel'.m_basis, rel.m_basis, last'.cols)
               /\ rename_example]_vars

\* a relation with both forms valid and rows in both, renamed by a cycle of
\* three columns that changed a row
C18_Witness ==
    /\ last.op = "rename" /\ last.cols = <<0, 1, 2>>
    /\ ~rel.m_empty /\ rel.m_ineqs_valid /\ rel.m_basis_valid
    /\ size(rel.m_ineqs) > 0 /\ size(rel.m_basis) > 0
    /\ rel.m_ineqs # last.other.m_ineqs
    /\ rel.m_basis # last.other.m_basis

Reverse(cyc) == [i \in 1..Len(cyc) |-> cyc[Len(cyc) + 1 - i]]

\* the step renames by the reverse of the cycle the step before renamed by
rename_back_step == last.op = "rename" /\ last'.op = "rename" /\ last'.cols = Reverse(last.cols)

\* C19 as stated: renaming by a cycle and then by the reversed cycle gives
\* back the matrices of the valid forms, the validity flags and the empty flag.
C19_RenameRoundTrip ==
    [][rename_back_step =>
          /\ rel'.m_empty = last.other.m_empty
          /\ rel'.m_ineqs_valid = last.other.m_ineqs_valid
          /\ rel'.m_basis_valid = last.other.m_basis_valid
          /\ last.other.m_ineqs_valid => rel'.m_ineqs = last.other.m_ineqs
          /\ last.other.m_basis_valid => rel'.m_basis = last.other.m_basis]_vars

\* C19, amended: for a non-empty relation, renaming by a cycle and then by
\* the reversed cycle gives back the matrices of the valid forms and the
\* validity flags, and the result is non-empty; an empty relation comes back
\* empty, as a new full relation marked empty.
C19_RenameRoundTripNonEmpty ==
    [][rename_back_step =>
          IF last.other.m_empty
          THEN rel' = [mk_full(rel.sig) EXCEPT !.m_empty = TRUE]
          ELSE /\ ~rel'.m_empty
               /\ rel'.m_ineqs_valid = last.other.m_ineqs_valid
               /\ rel'.m_basis_valid = last.other.m_basis_valid
               /\ last.other.m_ineqs_valid => rel'.m_ineqs = last.other.m_ineqs
               /\ last.other.m_basis_valid => rel'.m_basis = last.other.m_basis]_vars

\* a relation with rows was renamed by (0, 1, 2), which changed it, and then
\* by (2, 1, 0)
C19_Witness ==
    /\ last.op = "rename" /\ last.cols = <<2, 1, 0>>
    /\ ~rel.m_empty /\ rel.m_ineqs_valid /\ size(rel.m_ineqs) > 0
    /\ last.other.m_ineqs = rename_matrix(rel.m_ineqs, <<0, 1, 2>>)
    /\ last.other.m_ineqs # rel.m_ineqs

\* the columns of fact f that hold an integer numeral
int_columns(f) == {i \in 1..Len(f) : is_int_numeral(f[i])}

\* C20: add_fact on a relation just made by mk_empty gives empty = false,
\* ineqs_valid = true, basis_valid = false and a constraint form with exactly
\* one equality row per integer component k_i of the fact, in column order
\* (coefficient 1 at column i, constant -k_i); a component that is not an
\* integer numeral gives no row; for a fact of integer numerals the emitted
\* formula is the conjunction of those rows and holds exactly of the point
\* (k_1, ..., k_n).
C20_AddFactRows ==
    [][(last'.op = "add_fact" /\ rel = mk_empty(rel.sig)) =>
          LET f == last'.fact
              M == rel'.m_ineqs
              I == int_columns(f)
          IN  /\ ~rel'.m_empty /\ rel'.m_ineqs_valid /\ ~rel'.m_basis_valid
              /\ size(M) = Cardinality(I)
              /\ Len(M.b) = size(M) /\ Len(M.eq) = size(M)
              /\ \A i \in I :
                    LET m == Cardinality({k \in I : k < i}) + 1
                    IN  /\ M.A[m] = [j \in 1..Len(f) |-> IF j = i THEN 1 ELSE 0]
                        /\ M.b[m] = -f[i].val
                        /\ M.eq[m]
              /\ I = 1..Len(f) =>
                    /\ to_formula(rel', "none") = mk_and(M)
                    /\ ineqs_points(to_formula(rel', "none").M, Points(Len(f)))
                          = {[i \in 1..Len(f) |-> f[i].val]}]_vars

\* a fact with the integer component 1 and a component that is no integer,
\* added to a new empty relation
C20_Witness ==
    /\ last.op = "add_fact"
    /\ last.fact = <<RatElem, IntElem(1)>>
    /\ rel = add_fact(mk_empty(2), last.fact)
    /\ size(rel.m_ineqs) = 1 /\ rel.m_ineqs.b[1] = -1

C22_Refusal ==
    [][(drv.pc = "idle" /\ drv'.pc # "idle"
            /\ (~drv'.karr \/ drv'.has_negation))
          => /\ drv'.pc = "done" /\ drv'.result = "null"
             /\ drv'.passes = 0 /\ ~drv'.registered
             /\ drv'.m_fun2inv = drv.m_fun2inv
             /\ drv'.m_pinned = drv.m_pinned]_vars

\* operator() returned at once for a negated atom although the parameter is
\* on and the context has a model converter
C22_Witness ==
    /\ drv.pc = "done" /\ drv.karr /\ drv.has_negation /\ drv.has_mc
    /\ drv.result = "null" /\ drv.passes = 0 /\ ~drv.registered

\* assignments to the variables 0, 1, 2 of a rule
RuleVals == [1..3 -> {0, 1}]

\* the predicate atoms of r that have an invariant, as positions in the tail
annotated_atoms(fun2inv, r) ==
    SelectSeq([i \in 1..r.utsz |-> i], LAMBDA i : fun2inv[r.tail[i].pred] # NoInv)

\* e holds under t exactly when the invariant inv holds of the arguments
\* args evaluated under t
instance_of(e, inv, args) ==
    \A t \in RuleVals :
        holds(e, t) <=> holds(inv, [j \in 1..Len(args) |-> eval(args[j], t)])

\* C23: the rule update_body adds for a rule r has the head and the name of
\* r and a tail that starts with the tail of r; after it comes, for each
\* predicate atom q(t1..tk) of the tail that has an entry in m_fun2inv, in
\* the order of the atoms, one conjunct that holds exactly when the
\* invariant of q holds of t1..tk; atoms without an entry add nothing, the
\* head adds nothing, and a rule with no such atom is added as it is.
C23_AnnotatedRule ==
    last.op = "update_body" =>
        LET r == SrcRules[last.src[Len(last.dst)]]
            new == last.dst[Len(last.dst)]
            at == annotated_atoms(last.m_fun2inv, r)
        IN  /\ new.head = r.head /\ new.name = r.name /\ new.utsz = r.utsz
            /\ SubSeq(new.tail, 1, Len(r.tail)) = r.tail
            /\ Len(new.tail) = Len(r.tail) + Len(at)
            /\ \A k \in 1..Len(at) :
                  instance_of(new.tail[Len(r.tail) + k],
                              last.m_fun2inv[r.tail[at[k]].pred], r.tail[at[k]].args)
            /\ Len(at) = 0 => new = r

\* rule r3, p(x0,x1) and q(x1,x2) in its tail with different invariants: two
\* conjuncts were appended, and the second is not the invariant as stored
C23_Witness ==
    /\ last.op = "update_body" /\ last.src[Len(last.dst)] = 3
    /\ last.m_fun2inv["p"] # NoInv /\ last.m_fun2inv["q"] = Le(Var(0), Var(1))
    /\ Len(last.dst[Len(last.dst)].tail) = 5
    /\ last.dst[Len(last.dst)].tail[5] = Le(Var(1), Var(2))

\* truth of a default or an invariant under an assignment
holds_fml(e, t) ==
    CASE e.k = "true" -> TRUE
      [] e.k = "false" -> FALSE
      [] e.k = "and" -> holds(e.args[1], t) /\ holds(e.args[2], t)
      [] OTHER -> holds(e, t)

\* C24: for each pair (p, inv) the converter recorded, applying it to a
\* model does exactly one of three things: p had no interpretation and now
\* has one whose default is false; p had a total interpretation and its
\* default is now the conjunction of the old default and inv; p had a
\* partial interpretation and still has it, default unset.  No recorded
\* invariant is true.
C24_Converter ==
    last.op = "convert" =>
        \A i \in 1..Len(last.kmc.m_funcs) :
            LET p == last.kmc.m_funcs[i]
                inv == last.kmc.m_invs[i]
                old == last.mr_in[p]
                new == last.mr[p]
            IN  /\ inv # BTrue
                /\ ~old.present => new = Interp(BFalse)
                /\ (old.present /\ ~is_partial(old)) =>
                      /\ new.present /\ ~is_partial(new)
                      /\ \A t \in RuleVals :
                            holds_fml(new.else, t)
                               <=> (holds_fml(old.else, t) /\ holds_fml(inv, t))
                /\ (old.present /\ is_partial(old)) => new = old

\* both predicates recorded; p had a partial interpretation, q a total one
\* whose default was neither true nor false
C24_Witness ==
    /\ last.op = "convert" /\ Len(last.kmc.m_funcs) = 2
    /\ last.mr_in["p"] = Interp(Null)
    /\ last.mr_in["q"] = Interp(Ge(Var(0), Num(0)))
    /\ last.mr["q"].else = And(Ge(Var(0), Num(0)), last.m_fun2inv["q"])

\* integer assignments to the two columns
FilterPoints == [1..FilterWidth -> -1..3]

\* the rows filter_interpreted appended to the constraint form it found
appended_from(before, after) ==
    {i \in 1..size(after.m_ineqs) : i > size(get_ineqs(before, last.o1).m_ineqs)}
appended_points(before, after) ==
    {x \in FilterPoints : \A i \in appended_from(before, after) :
                              row_holds(after.m_ineqs, i, x)}
atom_points(e) == {x \in FilterPoints : holds(e, x)}

\* e is (v = n1) or (v = n2), written either way round
or_shape(e) == e \in OrAtoms

\* C25 as stated: for an atom of any of the accepted shapes over
\* integer-linear terms -- the disjunction (v = n1) or (v = n2) included --
\* the appended rows are satisfied by exactly the integer assignments that
\* satisfy the atom.
C25_RowsExact ==
    (last.op = "filter_interpreted" /\ Len(last.cond) = 1
        /\ last.cond[1] \in ShapedAtoms)
      => /\ appended_from(last.other, rel) # {}
         /\ appended_points(last.other, rel) = atom_points(last.cond[1])

\* C25, amended: for an equality or an ordering atom (negated or not) over
\* integer-linear terms one row is appended, and it is satisfied by exactly
\* the integer assignments that satisfy the atom; for (v = n1) or (v = n2)
\* two rows are appended, satisfied by exactly the assignments with
\* min(n1, n2) <= v <= max(n1, n2), which include those of the atom.
C25_RowsExactOrHull ==
    (last.op = "filter_interpreted" /\ Len(last.cond) = 1
        /\ last.cond[1] \in ShapedAtoms)
      => LET e == last.cond[1]
         IN  IF or_shape(e)
             THEN LET v == is_eq_v(e.args[1])
                      n1 == is_eq_n(e.args[1])
                      n2 == is_eq_n(e.args[2])
                  IN  /\ Cardinality(appended_from(last.other, rel)) = 2
                      /\ appended_points(last.other, rel)
                            = {x \in FilterPoints :
                                 /\ x[v.i + 1] >= (IF n1 < n2 THEN n1 ELSE n2)
                                 /\ x[v.i + 1] <= (IF n1 < n2 THEN n2 ELSE n1)}
                      /\ atom_points(e) \subseteq appended_points(last.other, rel)
             ELSE /\ Cardinality(appended_from(last.other, rel)) = 1
                  /\ appended_points(last.other, rel) = atom_points(e)

\* a strict atom between non-trivial terms was filtered into a relation that
\* already had a row
C25_Witness ==
    /\ last.op = "filter_interpreted"
    /\ last.cond = <<Gt(Sub(Var(1), Var(0)), Mul(Num(2), Var(0)))>>
    /\ size(last.other.m_ineqs) = 1 /\ size(rel.m_ineqs) = 2
    /\ rel.m_ineqs.b[2] = -1

\* e is an integer-linear term
RECURSIVE linear_term(_)
linear_term(e) ==
    /\ e.int
    /\ \/ e.k \in {"var", "num"}
       \/ e.k \in {"add", "sub"} /\ linear_term(e.args[1]) /\ linear_term(e.args[2])
       \/ e.k = "uminus" /\ linear_term(e.args[1])
       \/ e.k = "mul" /\ e.args[1].k = "num" /\ linear_term(e.args[2])
       \/ e.k = "mul" /\ e.args[2].k = "num" /\ linear_term(e.args[1])

\* e has one of the accepted shapes
recognised(e) ==
    \/ e.k \in {"eq", "le", "ge", "lt", "gt"}
       /\ linear_term(e.args[1]) /\ linear_term(e.args[2])
    \/ e.k = "not" /\ e.args[1].k \in {"le", "ge", "lt", "gt"}
       /\ linear_term(e.args[1].args[1]) /\ linear_term(e.args[1].args[2])
    \/ e.k = "or" /\ is_eq(e.args[1]) /\ is_eq(e.args[2])
       /\ is_eq_v(e.args[1]) = is_eq_v(e.args[2])

\* C26: an atom that is not recognised (one whose linear parse fails after
\* it changed row or b included) appends no row and changes no row, and the
\* atoms around it are processed as if it were not there; a condition with
\* no recognised atom leaves the constraint form, and so the set it
\* denotes, as get_ineqs gave it.
C26_UnrecognisedSkipped ==
    last.op = "filter_interpreted" =>
        LET r1 == get_ineqs(last.other, last.o1)
            known == SelectSeq(last.cond, recognised)
        IN  /\ rel = filter_interpreted(last.other, known, last.o1)
            /\ SubSeq(rel.m_ineqs.A, 1, size(r1.m_ineqs)) = r1.m_ineqs.A
            /\ SubSeq(rel.m_ineqs.b, 1, size(r1.m_ineqs)) = r1.m_ineqs.b
            /\ SubSeq(rel.m_ineqs.eq, 1, size(r1.m_ineqs)) = r1.m_ineqs.eq
            /\ Len(known) = 0 =>
                  /\ rel = r1
                  /\ gamma(rel, FilterPoints) = gamma(r1, FilterPoints)
            /\ Len(last.cond) = 1 /\ Len(known) = 1
                  => size(rel.m_ineqs) > size(r1.m_ineqs)

\* an atom whose parse failed after x0 + 1 was accumulated stands before
\* and after a recognised atom: one row was appended, that of the atom
C26_Witness ==
    /\ last.op = "filter_interpreted"
    /\ last.cond = <<Eq(Add(Var(0), Num(1)), Mul(Var(0), Var(1))), Lt(Var(0), Num(1)),
                     Eq(Add(Var(0), Num(1)), Mul(Var(0), Var(1)))>>
    /\ size(last.other.m_ineqs) = 1 /\ size(rel.m_ineqs) = 2
    /\ rel.m_ineqs.A[2] = <<-1, 0>> /\ rel.m_ineqs.b[2] = 0

\* C27: whenever operator() has returned -- with the rule set, after a
\* refusal, or after a cancellation -- m_fun2inv and m_pinned are empty and a
\* cancel request made before the return is no longer held in m_cancel.
C27_PerInvocation ==
    drv.pc = "done" =>
        /\ drv.m_fun2inv = EmptyMap
        /\ drv.m_pinned = <<>>
        /\ drv.cancel_seen => ~drv.m_cancel

\* C28: when the relation mk_project read its basis from is empty after the
\* call -- it was empty before, or the saturator answered UNSAT while its
\* basis was materialised -- the result of the projection is empty.
C28_ProjectKeepsEmpty ==
    (last.op = "project" /\ empty(last.other)) => empty(rel)

\* C29: in every step that calls get_ineqs on the relation -- the three
\* filters, to_formula on a relation not flagged empty -- the assertion of
\* init_ineqs holds (the constraint form is valid or the basis is), and in
\* every step that calls get_basis on it -- a projection of a relation not
\* flagged empty -- the assertion of init_basis holds.
C29_AssertionsHold ==
    [][/\ (\/ last'.op \in {"filter_identical", "filter_interpreted", "get_ineqs"}
           \/ last'.op = "filter_equal" /\ filter_equal_valid(last'.val)
           \/ last'.op = "to_formula" /\ ~empty(rel))
             => init_ineqs_assert(rel)
       /\ (\/ last'.op = "get_basis"
           \/ last'.op = "project" /\ ~empty(rel))
             => init_basis_assert(rel)]_vars

\* C30: under repeated unions into one target, with sources taken from a
\* finite set of relations, each union keeps every row the target's basis
\* had (its row set only grows); delta receives a copy
\* only from a call that appended a row or found the target empty; and once
\* the target holds every row of a source, a union with that source leaves
\* the target's basis as it is and hands no copy to delta -- so only
\* finitely many unions change the target.
C30_UnionSaturates ==
    [][last'.op = "union" =>
          /\ rows(rel.m_basis) \subseteq rows(rel'.m_basis)
          /\ last'.copied =>
                \/ empty(rel)
                \/ rows(rel'.m_basis) # rows(rel.m_basis)
          /\ (~empty(rel) /\ rel.m_basis_valid
                /\ rows(last'.other.m_basis) \subseteq rows(rel.m_basis))
                => (rel'.m_basis = rel.m_basis /\ ~last'.copied)]_vars

====
